---------------------------- MODULE Spec2Model ----------------------------
(***************************************************************************)
(* Challenge brokers of the signup automation: CaptchaSolver               *)
(* (captcha_solver.py) over CapSolverClient / TwoCaptchaClient, and        *)
(* SMSService (sms_service.py) over SMSActivateClient / FiveSimClient.     *)
(*                                                                         *)
(* One behaviour follows one Broker instance of one family from            *)
(* construction through __aenter__, a bounded number of operations and     *)
(* __aexit__.  Every await of the coroutines is a step boundary: a request *)
(* is sent in one step and the vendor's response, drawn from a small set,  *)
(* is handled in the next.                                                  *)
(***************************************************************************)
EXTENDS Integers, Sequences, FiniteSets, TLC

(***************************************************************************)
(* Bounds of the model.                                                    *)
(***************************************************************************)
\* operations started on one Broker instance
MaxCalls == 3
\* timeouts 0..MaxTimeout are passed to the provider clients
MaxTimeout == 10
\* the longest poll round-trip duration considered
MaxRoundTrip == 2
\* the longer of the two timeouts used when two calls run concurrently
MaxConcTimeout == 6
\* operations the first caller starts in the concurrent scenario
MaxConcCalls == 3
MaxMessages == 2
MaxDbOps == 4
MaxRuns == 2

(***************************************************************************)
(* Program constants.                                                      *)
(***************************************************************************)
\* _create_and_wait(..., timeout: int = 120), wait_for_code(timeout: int = 120)
DefaultTimeout == 120
\* CapSolverClient._create_and_wait: poll_interval = 3
CapSolverPollInterval == 3
\* TwoCaptchaClient._create_and_wait: poll_interval = 5
TwoCaptchaPollInterval == 5
\* SMSActivateClient.wait_for_code / FiveSimClient.wait_for_code: poll_interval: int = 5
SmsPollInterval == 5

\* Python's None
None == "None"

Families == {"captcha", "sms"}

ProvidersOf(f) ==
    IF f = "captcha" THEN {"capsolver", "2captcha"} ELSE {"sms-activate", "5sim"}

Providers == ProvidersOf("captcha") \cup ProvidersOf("sms")

\* the client class the first try block of __aenter__ constructs
PreferredClient(f, pref) ==
    IF f = "captcha"
    THEN IF pref = "capsolver" THEN "capsolver" ELSE "2captcha"
    ELSE IF pref = "sms-activate" THEN "sms-activate" ELSE "5sim"

\* the client class the except ValueError block of __aenter__ constructs
AlternateClient(f, pref) ==
    IF f = "captcha"
    THEN IF pref = "capsolver" THEN "2captcha" ELSE "capsolver"
    ELSE IF pref = "sms-activate" THEN "5sim" ELSE "sms-activate"

\* the message of the ValueError __aenter__ raises when both constructors failed
NoProviderMsg(f) ==
    IF f = "captcha" THEN "No CAPTCHA solver configured" ELSE "No SMS provider configured"

PollInterval(p) ==
    IF p = "capsolver" THEN CapSolverPollInterval
    ELSE IF p = "2captcha" THEN TwoCaptchaPollInterval
    ELSE SmsPollInterval

Timeouts == 0 .. MaxTimeout

\* the timeout arguments given to SMSService.wait_for_code: a negative one,
\* the small ones and the default
SmsTimeouts == ((0 - 1) .. MaxTimeout) \cup {DefaultTimeout}

(***************************************************************************)
(* Values on the wire.                                                     *)
(***************************************************************************)
\* "" is the empty (falsy) string
Tokens == {"", "tok-123"}
\* cost in 1/10000 USD
Costs == {0, 21}
TaskIds == {"T1"}
SolutionFields == {"gRecaptchaResponse", "token", "text"}

\* Python truthiness of an optional string
Truthy(s) == s # None /\ s # ""

\* a or b
PyOr(a, b) == IF Truthy(a) THEN a ELSE b

\* data.get(key) of a solution object that carries value v under field f only
SolGet(sol, key) == IF sol.field = key THEN sol.value ELSE None

\* the "solution" objects a CapSolver response may carry; value None: no solution
Solutions == [field : SolutionFields, value : Tokens] \cup {[field |-> "token", value |-> None]}

NoSol == [field |-> "token", value |-> None]

\* CaptchaSolution
Solution(tok, tid, prov, c) == [token |-> tok, task_id |-> tid, provider |-> prov, cost |-> c]

NoSolution == Solution(None, None, None, 0)

\* PhoneNumber
Phone(num, ctry, aid, prov) ==
    [number |-> num, country |-> ctry, activation_id |-> aid, provider |-> prov]

NoPhone == Phone(None, None, None, None)

\* outcome of an operation: still running, returned, or raised
Running ==
    [kind |-> "running", etype |-> None, msg |-> None, reason |-> None,
     solution |-> NoSolution, phone |-> NoPhone, code |-> None]

Returned(sol, ph, cd) ==
    [kind |-> "return", etype |-> None, msg |-> None, reason |-> None,
     solution |-> sol, phone |-> ph, code |-> cd]

\* an exception of type t with message prefix m and the vendor's text r
Raised(t, m, r) ==
    [kind |-> "raise", etype |-> t, msg |-> m, reason |-> r,
     solution |-> NoSolution, phone |-> NoPhone, code |-> None]

\* a request put on the wire
Req(p, k, i, e) == [to |-> p, kind |-> k, id |-> i, at |-> e]

VARIABLES
    family,         \* which Broker class this instance is
    preferred,      \* self.preferred_provider
    keys,           \* providers whose API key is set in the environment
    phase,          \* "new", "entered", "failed" (entry raised), "exited"
    provider,       \* self._provider: None or the selected client
    session,        \* per provider client: its aiohttp session "none"/"open"/"closed"
    current_phone,  \* self._current_phone
    callNo,         \* operations started so far on this instance
    op,             \* the operation in progress or last finished
    pc,             \* position of the running coroutine
    timeout,        \* timeout argument of the running polling loop
    elapsed,        \* local variable elapsed of the polling loop
    task_id,        \* local task_id / activation_id of the polling loop
    sent,           \* requests sent by the current operation, in order
    contacted,      \* providers that were sent any request by this instance
    lastResp,       \* the last vendor response this instance handled
    leases,         \* activation ids of the successful get_number calls, in order
    result,         \* outcome of the current operation
    co2,            \* a second call running concurrently on the same instance
    bot,            \* the SignupBot that owns the Broker, NoBot when there is none
    db,             \* the Database: its tables and the outcome of its last call
    mail            \* the AtomicMailBot and its run

vars == <<family, preferred, keys, phase, provider, session, current_phone, callNo, op, pc,
          timeout, elapsed, task_id, sent, contacted, lastResp, leases, result, co2, bot,
          db, mail>>

\* the state of one Broker and of the operation running on it
coreVars == <<family, preferred, keys, phase, provider, session, current_phone, callNo, op, pc,
              timeout, elapsed, task_id, sent, contacted, lastResp, leases, result, co2>>

\* the state of the programs that use a Broker
appVars == <<bot, db, mail>>

brokerVars == <<family, preferred, keys, phase, provider, session>>

smsVars == <<current_phone, leases>>

NoResp == [rkind |-> "none"]

\* the second call before it is started: position, timeout and elapsed of its
\* polling loop, its task id, the polls it has sent so far, and how it ended
NoCall2 ==
    [pc |-> "idle", timeout |-> 0, elapsed |-> 0, task_id |-> None, polls |-> 0,
     kind |-> "running", etype |-> None]

\* a Broker after its constructor
BrokerInit ==
    /\ family \in Families
    /\ preferred \in ProvidersOf(family)
    /\ keys \in SUBSET ProvidersOf(family)
    /\ phase = "new"
    /\ provider = None
    /\ session = [p \in Providers |-> "none"]
    /\ current_phone = NoPhone
    /\ callNo = 0
    /\ op = None
    /\ pc = "idle"
    /\ timeout = 0
    /\ elapsed = 0
    /\ task_id = None
    /\ sent = <<>>
    /\ contacted = {}
    /\ lastResp = NoResp
    /\ leases = <<>>
    /\ result = Running
    /\ co2 = NoCall2

\* no field of a SignupBot: the Broker is used on its own
NoBot == [state |-> "none"]

\* no call of the Database made yet
NoOutcome == [op |-> None, email |-> None, kind |-> "running", etype |-> None, id |-> 0]

\* Database.__init__: no connection; the file has no tables and no rows.
\* seq is the AUTOINCREMENT counter of accounts, logs the rows of
\* signup_logs in insertion order, ops the number of calls made.
NewDb ==
    [initialized |-> FALSE, accounts |-> {}, logs |-> <<>>, seq |-> 0, ops |-> 0,
     out |-> NoOutcome]

\* AtomicMailBot.__init__: no browser, no page, no persona; steps lists the
\* steps run() completed, runs counts the calls of run()
NewMail ==
    [pc |-> "idle", browser |-> "none", page |-> FALSE, email |-> None, steps |-> <<>>,
     success |-> FALSE, error |-> FALSE, account_id |-> 0, raising |-> FALSE, runs |-> 0]

Init ==
    /\ BrokerInit
    /\ bot = NoBot
    /\ db = NewDb
    /\ mail = NewMail

(***************************************************************************)
(* Broker entry and exit.                                                  *)
(***************************************************************************)
\* SelectProvider with the alternate client constructed without its key check
SelectProvider_NoFailFast(f, pref, ks) ==
    IF PreferredClient(f, pref) \in ks THEN PreferredClient(f, pref)
    ELSE AlternateClient(f, pref)

\* SelectProvider without the except branch that tries the alternate client
SelectProvider_NoFailover(f, pref, ks) ==
    IF PreferredClient(f, pref) \in ks THEN PreferredClient(f, pref) ELSE None

\* Client constructors: ValueError unless the API key is configured.  The
\* result is the client __aenter__ ends up with, None when both raised.
SelectProvider(f, pref, ks) ==
    IF PreferredClient(f, pref) \in ks THEN PreferredClient(f, pref)
    ELSE IF AlternateClient(f, pref) \in ks THEN AlternateClient(f, pref)
    ELSE None

\* CaptchaSolver.__aenter__ / SMSService.__aenter__
Enter ==
    /\ phase = "new"
    /\ LET sel == SelectProvider(family, preferred, keys) IN
        /\ provider' = sel
        /\ phase' = IF sel = None THEN "failed" ELSE "entered"
        /\ session' = IF sel = None THEN session ELSE [session EXCEPT ![sel] = "open"]
        /\ result' = IF sel = None
                     THEN Raised("ValueError", NoProviderMsg(family), None)
                     ELSE result
    /\ UNCHANGED <<family, preferred, keys, smsVars, co2, callNo, op, pc, timeout, elapsed,
                   task_id, sent, contacted, lastResp>>

\* Exit that does not close the provider's session
Exit_LeavesOpen ==
    /\ phase = "entered"
    /\ pc \in {"idle", "done"}
    /\ phase' = "exited"
    /\ UNCHANGED <<family, preferred, keys, provider, session, smsVars, co2, callNo, op, pc,
                   timeout, elapsed, task_id, sent, contacted, lastResp, result>>

\* CaptchaSolver.__aexit__ / SMSService.__aexit__, once no operation is running
Exit ==
    /\ phase = "entered"
    /\ pc \in {"idle", "done"}
    /\ phase' = "exited"
    /\ session' = IF provider # None /\ session[provider] = "open"
                  THEN [session EXCEPT ![provider] = "closed"]
                  ELSE session
    /\ UNCHANGED <<family, preferred, keys, provider, smsVars, co2, callNo, op, pc, timeout,
                   elapsed, task_id, sent, contacted, lastResp, result>>

\* the caller may start another operation on the entered Broker
CanStart ==
    /\ phase = "entered"
    /\ pc \in {"idle", "done"}
    /\ callNo < MaxCalls

(***************************************************************************)
(* CAPTCHA family: vendor responses.                                       *)
(***************************************************************************)
CapSolverResp(eid, descr, tid, st, sol, hasCost, c) ==
    [rkind |-> "capsolver", errorId |-> eid, errorDescription |-> descr, taskId |-> tid,
     status |-> st, solution |-> sol, hasCost |-> hasCost, cost |-> c]

\* hasCost/cost: a "cost" member in the JSON object, which the client never reads
TwoCaptchaResp(st, rq, hasCost, c) ==
    [rkind |-> "2captcha", status |-> st, request |-> rq, hasCost |-> hasCost, cost |-> c]

\* responses to createTask / in.php
CreateResponses(p) ==
    IF p = "capsolver"
    THEN {CapSolverResp(1, "ERROR_KEY_DENIED_ACCESS", None, None, NoSol, FALSE, 0)}
         \cup {CapSolverResp(0, None, tid, "idle", sol, FALSE, 0) :
                    tid \in TaskIds, sol \in Solutions}
    ELSE {TwoCaptchaResp(0, "ERROR_ZERO_BALANCE", FALSE, 0)}
         \cup {TwoCaptchaResp(1, tid, FALSE, 0) : tid \in TaskIds}

\* responses to getTaskResult / res.php
PollResponses(p) ==
    IF p = "capsolver"
    THEN {CapSolverResp(1, "ERROR_TASK_TIMEOUT", None, None, NoSol, FALSE, 0),
          CapSolverResp(0, None, None, "processing", NoSol, FALSE, 0)}
         \cup {CapSolverResp(0, None, None, "ready", sol, TRUE, c) :
                    sol \in Solutions, c \in Costs}
         \cup {CapSolverResp(0, None, None, "ready", sol, FALSE, 0) : sol \in Solutions}
    ELSE {TwoCaptchaResp(0, "CAPCHA_NOT_READY", FALSE, 0),
          TwoCaptchaResp(0, "ERROR_CAPTCHA_UNSOLVABLE", FALSE, 0)}
         \cup {TwoCaptchaResp(1, tok, TRUE, c) : tok \in Tokens, c \in Costs}
         \cup {TwoCaptchaResp(1, tok, FALSE, 0) : tok \in Tokens}

(***************************************************************************)
(* CAPTCHA family: CapSolverClient / TwoCaptchaClient._create_and_wait.    *)
(***************************************************************************)
\* if data.get("solution"): a non-empty object
SolPresent(sol) == sol.value # None

\* CreateOutcome with the error test on the create answer left out
CreateOutcome_IgnoreError(p, r) ==
    IF p = "capsolver"
    THEN IF r.errorId = 0 /\ SolPresent(r.solution)
         THEN Returned(Solution(PyOr(SolGet(r.solution, "gRecaptchaResponse"),
                                     SolGet(r.solution, "token")),
                                r.taskId, "capsolver", 0), NoPhone, None)
         ELSE Running
    ELSE Running

\* CreateOutcome with the inline solution of the create answer not read
CreateOutcome_NoInline(p, r) ==
    IF p = "capsolver"
    THEN IF r.errorId # 0
         THEN Raised("Exception", "Failed to create task", r.errorDescription)
         ELSE Running
    ELSE IF r.status # 1
         THEN Raised("Exception", "Failed to create task", r.request)
         ELSE Running

\* What the block handling the create response does: raise, return the
\* inline solution, or (Running) go on to the polling loop.
CreateOutcome(p, r) ==
    IF p = "capsolver"
    THEN IF r.errorId # 0
         THEN Raised("Exception", "Failed to create task", r.errorDescription)
         ELSE IF SolPresent(r.solution)
         THEN Returned(Solution(PyOr(SolGet(r.solution, "gRecaptchaResponse"),
                                     SolGet(r.solution, "token")),
                                r.taskId, "capsolver", 0), NoPhone, None)
         ELSE Running
    ELSE IF r.status # 1
         THEN Raised("Exception", "Failed to create task", r.request)
         ELSE Running

\* task_id = data.get("taskId") / data.get("request")
CreatedTaskId(p, r) == IF p = "capsolver" THEN r.taskId ELSE r.request

\* PollOutcome with the cost of a ready CapSolver task left at its default
PollOutcome_NoCost(p, r, tid) ==
    IF p = "capsolver"
    THEN IF r.errorId # 0
         THEN Raised("Exception", "Task failed", r.errorDescription)
         ELSE IF r.status = "ready"
         THEN Returned(Solution(PyOr(PyOr(SolGet(r.solution, "gRecaptchaResponse"),
                                          SolGet(r.solution, "token")),
                                     SolGet(r.solution, "text")),
                                tid, "capsolver", 0),
                       NoPhone, None)
         ELSE Running
    ELSE IF r.status = 1
         THEN Returned(Solution(r.request, tid, "2captcha", 0), NoPhone, None)
         ELSE IF r.request # "CAPCHA_NOT_READY"
         THEN Raised("Exception", "Task failed", r.request)
         ELSE Running

\* PollOutcome with a vendor error taken for "not ready yet"
PollOutcome_ErrorContinues(p, r, tid) ==
    IF p = "capsolver"
    THEN IF r.errorId = 0 /\ r.status = "ready"
         THEN Returned(Solution(PyOr(PyOr(SolGet(r.solution, "gRecaptchaResponse"),
                                          SolGet(r.solution, "token")),
                                     SolGet(r.solution, "text")),
                                tid, "capsolver", IF r.hasCost THEN r.cost ELSE 0),
                       NoPhone, None)
         ELSE Running
    ELSE IF r.status = 1
         THEN Returned(Solution(r.request, tid, "2captcha", 0), NoPhone, None)
         ELSE Running

\* What the block handling one poll response does: raise, return the
\* solution, or (Running) fall through to the next loop test.
PollOutcome(p, r, tid) ==
    IF p = "capsolver"
    THEN IF r.errorId # 0
         THEN Raised("Exception", "Task failed", r.errorDescription)
         ELSE IF r.status = "ready"
         THEN Returned(Solution(PyOr(PyOr(SolGet(r.solution, "gRecaptchaResponse"),
                                          SolGet(r.solution, "token")),
                                     SolGet(r.solution, "text")),
                                tid, "capsolver", IF r.hasCost THEN r.cost ELSE 0),
                       NoPhone, None)
         ELSE Running
    ELSE IF r.status = 1
         THEN Returned(Solution(r.request, tid, "2captcha", 0), NoPhone, None)
         ELSE IF r.request # "CAPCHA_NOT_READY"
         THEN Raised("Exception", "Task failed", r.request)
         ELSE Running

\* LoopContinues with the loop test off by one
LoopContinues_Inclusive(el, to) == el <= to

\* while elapsed < timeout
LoopContinues(el, to) == el < to

\* LoopCheck that returns an empty solution when the loop has run out
LoopCheck_ReturnsOnTimeout(out, el, to, m) ==
    IF out.kind # "running" THEN out
    ELSE IF LoopContinues(el, to) THEN Running
    ELSE Returned(Solution(None, None, "capsolver", 0), NoPhone, None)

\* the outcome after the loop test: Running while the loop goes on, the
\* TimeoutError raised after the loop otherwise
LoopCheck(out, el, to, m) ==
    IF out.kind # "running" THEN out
    ELSE IF LoopContinues(el, to) THEN Running
    ELSE Raised("TimeoutError", m, None)

CaptchaOps == {"recaptcha_v2", "recaptcha_v3", "hcaptcha", "turnstile"}

\* CapSolverClient.solve_recaptcha_v2: task_type by the enterprise flag
CapSolverV2TaskType(enterprise) ==
    IF enterprise THEN "ReCaptchaV2EnterpriseTaskProxyLess" ELSE "ReCaptchaV2TaskProxyLess"

\* CapSolverClient.solve_hcaptcha: task_type by the enterprise flag
CapSolverHCaptchaTaskType(enterprise) ==
    IF enterprise THEN "HCaptchaEnterpriseTaskProxyLess" ELSE "HCaptchaTurboTaskProxyLess"

\* The task type ("type" of the CapSolver task, "method" of the 2Captcha
\* request) of the create request for operation o of the Broker.  The Broker
\* hands site key, URL and (v2) invisible to the client, so the client's
\* enterprise parameter keeps its default False.  A direct _create_and_wait
\* gets its task from the caller.
TaskType(p, o) ==
    IF p = "capsolver"
    THEN CASE o = "recaptcha_v2" -> CapSolverV2TaskType(FALSE)
           [] o = "recaptcha_v3" -> "ReCaptchaV3TaskProxyLess"
           [] o = "hcaptcha" -> CapSolverHCaptchaTaskType(FALSE)
           [] o = "turnstile" -> "AntiTurnstileTaskProxyLess"
           [] OTHER -> None
    ELSE CASE o \in {"recaptcha_v2", "recaptcha_v3"} -> "userrecaptcha"
           [] o = "hcaptcha" -> "hcaptcha"
           [] OTHER -> None

\* the first statement of _create_and_wait: the create request is sent
BeginCreateAndWait(o, t) ==
    /\ op' = o
    /\ timeout' = t
    /\ elapsed' = 0
    /\ task_id' = None
    /\ sent' = <<Req(provider, "create", TaskType(provider, o), 0)>>
    /\ contacted' = contacted \cup {provider}
    /\ result' = Running
    /\ pc' = "creating"

\* Solve whose solve_turnstile does not test the provider's class
Solve_TurnstileAnyProvider(o) ==
    /\ CanStart
    /\ family = "captcha"
    /\ callNo' = callNo + 1
    /\ BeginCreateAndWait(o, DefaultTimeout)
    /\ UNCHANGED <<brokerVars, co2, smsVars, lastResp>>

\* Solve that runs _create_and_wait with a timeout other than the default
Solve_ShortTimeout(o) ==
    /\ CanStart
    /\ family = "captcha"
    /\ callNo' = callNo + 1
    /\ IF o = "turnstile" /\ provider # "capsolver"
       THEN /\ op' = o
            /\ result' = Raised("NotImplementedError", "Turnstile solving requires CapSolver",
                                None)
            /\ sent' = <<>>
            /\ pc' = "done"
            /\ UNCHANGED <<timeout, elapsed, task_id, contacted>>
       ELSE BeginCreateAndWait(o, MaxTimeout)
    /\ UNCHANGED <<brokerVars, co2, smsVars, lastResp>>

\* CaptchaSolver.solve_recaptcha_v2 / _v3 / solve_hcaptcha / solve_turnstile:
\* the provider client's method runs _create_and_wait with its default timeout
Solve(o) ==
    /\ CanStart
    /\ family = "captcha"
    /\ callNo' = callNo + 1
    /\ IF o = "turnstile" /\ provider # "capsolver"
       THEN /\ op' = o
            /\ result' = Raised("NotImplementedError", "Turnstile solving requires CapSolver",
                                None)
            /\ sent' = <<>>
            /\ pc' = "done"
            /\ UNCHANGED <<timeout, elapsed, task_id, contacted>>
       ELSE BeginCreateAndWait(o, DefaultTimeout)
    /\ UNCHANGED <<brokerVars, co2, smsVars, lastResp>>

\* CaptchaSolver.solve_recaptcha_v2(site_key, url, enterprise=True): the
\* Broker's method has no enterprise parameter, so the call raises TypeError
\* before its body runs
SolveRecaptchaV2Enterprise ==
    /\ CanStart
    /\ family = "captcha"
    /\ callNo' = callNo + 1
    /\ op' = "recaptcha_v2_enterprise"
    /\ result' = Raised("TypeError", "unexpected keyword argument", "enterprise")
    /\ sent' = <<>>
    /\ pc' = "done"
    /\ UNCHANGED <<brokerVars, co2, smsVars, lastResp, timeout, elapsed, task_id, contacted>>

\* a direct call of the selected client's _create_and_wait(task, timeout)
CreateAndWait(t) ==
    /\ CanStart
    /\ family = "captcha"
    /\ callNo' = callNo + 1
    /\ BeginCreateAndWait("create_and_wait", t)
    /\ UNCHANGED <<brokerVars, co2, smsVars, lastResp>>

\* the create response arrives
CreateResponse(r) ==
    /\ pc = "creating"
    /\ lastResp' = r
    /\ LET out == LoopCheck(CreateOutcome(provider, r), 0, timeout, "CAPTCHA not solved within")
       IN /\ result' = out
          /\ pc' = IF out.kind = "running" THEN "sleeping" ELSE "done"
          /\ task_id' = IF CreateOutcome(provider, r).kind = "raise"
                        THEN task_id
                        ELSE CreatedTaskId(provider, r)
    /\ elapsed' = 0
    /\ UNCHANGED <<brokerVars, co2, smsVars, callNo, op, timeout, sent, contacted>>

\* SleepDone that sends the next poll twice, without awaiting the first answer
SleepDone_TwoPolls ==
    /\ pc = "sleeping"
    /\ elapsed' = elapsed + PollInterval(provider)
    /\ sent' = Append(Append(sent, Req(provider, "poll", task_id, elapsed')),
                      Req(provider, "poll", task_id, elapsed'))
    /\ contacted' = contacted \cup {provider}
    /\ pc' = "polling"
    /\ UNCHANGED <<brokerVars, co2, smsVars, callNo, op, timeout, task_id, lastResp, result>>

\* asyncio.sleep(poll_interval) returns; elapsed += poll_interval; the poll is sent
SleepDone ==
    /\ pc = "sleeping"
    /\ elapsed' = elapsed + PollInterval(provider)
    /\ sent' = Append(sent, Req(provider, "poll", task_id, elapsed'))
    /\ contacted' = contacted \cup {provider}
    /\ pc' = "polling"
    /\ UNCHANGED <<brokerVars, co2, smsVars, callNo, op, timeout, task_id, lastResp, result>>

\* PollResponse that records the outcome without leaving the polling loop
PollResponse_NoReturn(r) ==
    /\ pc = "polling"
    /\ lastResp' = r
    /\ result' = LoopCheck(PollOutcome(provider, r, task_id), elapsed, timeout,
                           "CAPTCHA not solved within")
    /\ pc' = IF result'.kind = "raise" THEN "done" ELSE "sleeping"
    /\ UNCHANGED <<brokerVars, co2, smsVars, callNo, op, timeout, elapsed, task_id, sent,
                   contacted>>

\* PollResponse with a failover to the other client when the operation fails
PollResponse_Failover(r) ==
    /\ pc = "polling"
    /\ lastResp' = r
    /\ LET out == LoopCheck(PollOutcome(provider, r, task_id), elapsed, timeout,
                            "CAPTCHA not solved within")
       IN /\ result' = out
          /\ pc' = IF out.kind = "running" THEN "sleeping" ELSE "done"
          /\ provider' = IF out.kind = "raise"
                         THEN CHOOSE q \in ProvidersOf(family) : q # provider
                         ELSE provider
    /\ UNCHANGED <<family, preferred, keys, phase, session, smsVars, co2, callNo, op, timeout,
                   elapsed, task_id, sent, contacted>>

\* the poll response arrives
PollResponse(r) ==
    /\ pc = "polling"
    /\ lastResp' = r
    /\ LET out == LoopCheck(PollOutcome(provider, r, task_id), elapsed, timeout,
                            "CAPTCHA not solved within")
       IN /\ result' = out
          /\ pc' = IF out.kind = "running" THEN "sleeping" ELSE "done"
    /\ UNCHANGED <<brokerVars, co2, smsVars, callNo, op, timeout, elapsed, task_id, sent,
                   contacted>>

(***************************************************************************)
(* SMS family: vendor responses.                                           *)
(***************************************************************************)
ActivationIds == {"A1", "A2"}
Numbers == {"79001112233"}
\* "" is the empty (falsy) string
Codes == {"", "1234"}
Services == {"google"}
Countries == {"russia", "USA", "mars"}

\* the body of an SMS-Activate answer, split at ":"
SmsActivateResp(parts) == [rkind |-> "sms-activate", parts |-> parts]

\* a 5sim answer: HTTP status, whether the body is JSON, and the JSON fields read
FiveSimResp(st, js, body, ph, ctry, id, sms) ==
    [rkind |-> "5sim", httpStatus |-> st, isJson |-> js, body |-> body, phone |-> ph,
     country |-> ctry, id |-> id, sms |-> sms]

\* answers to getNumber / user/buy/activation
NumberResponses(p) ==
    IF p = "sms-activate"
    THEN {SmsActivateResp(<<"ACCESS_NUMBER", a, n>>) : a \in ActivationIds, n \in Numbers}
         \cup {SmsActivateResp(<<"NO_NUMBERS">>), SmsActivateResp(<<"NO_BALANCE">>),
                SmsActivateResp(<<"BAD_KEY">>)}
    ELSE {FiveSimResp(200, TRUE, None, n, "russia", a, <<>>) :
              a \in ActivationIds, n \in Numbers}
         \cup {FiveSimResp(400, FALSE, "no free phones", None, None, None, <<>>),
                FiveSimResp(400, FALSE, "not enough user balance", None, None, None, <<>>),
                FiveSimResp(200, FALSE, "no free phones", None, None, None, <<>>)}

\* one received SMS of a 5sim check answer
Sms(c, t) == [code |-> c, text |-> t]

\* a 5sim answer to user/check: the order's JSON with its status and its SMS list
FiveSimCheck(st, sms) ==
    [rkind |-> "5sim", httpStatus |-> 200, isJson |-> TRUE, body |-> None, phone |-> None,
     country |-> None, id |-> None, sms |-> sms, status |-> st]

\* answers to getStatus / user/check
CodeResponses(p) ==
    IF p = "sms-activate"
    THEN {SmsActivateResp(<<"STATUS_OK", c>>) : c \in Codes}
         \cup {SmsActivateResp(<<"STATUS_WAIT_CODE">>), SmsActivateResp(<<"STATUS_CANCEL">>),
                SmsActivateResp(<<"NO_ACTIVATION">>)}
    ELSE {FiveSimCheck("PENDING", <<>>), FiveSimCheck("CANCELED", <<>>)}
         \cup {FiveSimCheck("RECEIVED", <<Sms(c, t)>>) :
                    c \in Codes \cup {None}, t \in {None, "code 1234"}}

(***************************************************************************)
(* SMS family: SMSService and its provider clients.                        *)
(***************************************************************************)
\* country.lower()
Lower(c) ==
    CASE c = "USA" -> "usa"
      [] c = "UK" -> "uk"
      [] c = "Germany" -> "germany"
      [] c = "Mars" -> "mars"
      [] OTHER -> c

\* CountryMap whose default is made of the lower-cased country
CountryMap_DefaultLowered(c) ==
    CASE Lower(c) = "usa" -> <<"12", "usa">>
      [] Lower(c) = "uk" -> <<"16", "england">>
      [] Lower(c) = "russia" -> <<"0", "russia">>
      [] Lower(c) = "ukraine" -> <<"1", "ukraine">>
      [] Lower(c) = "germany" -> <<"43", "germany">>
      [] OTHER -> <<Lower(c), Lower(c)>>

\* country_map.get(country.lower(), (country, country))
CountryMap(c) ==
    CASE Lower(c) = "usa" -> <<"12", "usa">>
      [] Lower(c) = "uk" -> <<"16", "england">>
      [] Lower(c) = "russia" -> <<"0", "russia">>
      [] Lower(c) = "ukraine" -> <<"1", "ukraine">>
      [] Lower(c) = "germany" -> <<"43", "germany">>
      [] OTHER -> <<c, c>>

\* country_code of SMSService.get_number
CountryCode(p, c) == IF p = "sms-activate" THEN CountryMap(c)[1] ELSE CountryMap(c)[2]

\* NumberOutcome with NO_NUMBERS answered by an empty PhoneNumber instead of an exception
NumberOutcome_EmptyOnNoNumbers(p, r, cc) ==
    IF p = "sms-activate"
    THEN IF r.parts[1] = "ACCESS_NUMBER" /\ Len(r.parts) >= 3
         THEN Returned(NoSolution, Phone(r.parts[3], cc, r.parts[2], "sms-activate"), None)
         ELSE IF r.parts = <<"NO_NUMBERS">>
         THEN Returned(NoSolution, Phone("", cc, "", "sms-activate"), None)
         ELSE IF r.parts = <<"NO_BALANCE">>
         THEN Raised("Exception", "Insufficient balance", None)
         ELSE Raised("Exception", "Failed to get number", r.parts[1])
    ELSE IF r.httpStatus # 200
         THEN Raised("Exception", "Failed to get number", r.body)
         ELSE IF ~r.isJson
         THEN Raised("ContentTypeError", "Attempt to decode JSON", r.body)
         ELSE Returned(NoSolution, Phone(r.phone, r.country, r.id, "5sim"), None)

\* SMSActivateClient.get_number / FiveSimClient.get_number on the answer r
NumberOutcome(p, r, cc) ==
    IF p = "sms-activate"
    THEN IF r.parts[1] = "ACCESS_NUMBER" /\ Len(r.parts) >= 3
         THEN Returned(NoSolution, Phone(r.parts[3], cc, r.parts[2], "sms-activate"), None)
         ELSE IF r.parts = <<"NO_NUMBERS">>
         THEN Raised("Exception", "No numbers available for this service/country", None)
         ELSE IF r.parts = <<"NO_BALANCE">>
         THEN Raised("Exception", "Insufficient balance", None)
         ELSE Raised("Exception", "Failed to get number", r.parts[1])
    ELSE IF r.httpStatus # 200
         THEN Raised("Exception", "Failed to get number", r.body)
         ELSE IF ~r.isJson
         THEN Raised("ContentTypeError", "Attempt to decode JSON", r.body)
         ELSE Returned(NoSolution, Phone(r.phone, r.country, r.id, "5sim"), None)

\* SMSActivateClient.get_code / FiveSimClient.get_code on the answer r:
\* Returned carries the code (possibly None), Raised the exception
CodeOutcome(p, r) ==
    IF p = "sms-activate"
    THEN IF r.parts[1] = "STATUS_OK" /\ Len(r.parts) >= 2
         THEN Returned(NoSolution, NoPhone, r.parts[2])
         ELSE IF r.parts = <<"STATUS_WAIT_CODE">>
         THEN Returned(NoSolution, NoPhone, None)
         ELSE IF r.parts = <<"STATUS_CANCEL">>
         THEN Raised("Exception", "Activation was cancelled", None)
         ELSE Returned(NoSolution, NoPhone, None)
    ELSE IF Len(r.sms) > 0
         THEN Returned(NoSolution, NoPhone, PyOr(r.sms[1].code, r.sms[1].text))
         ELSE Returned(NoSolution, NoPhone, None)

\* NoLease with the guard of wait_for_code missing
NoLease_Unchecked(ph) == FALSE

\* SMSService.wait_for_code: if not self._current_phone
NoLease(ph) == ph = NoPhone

\* LeaseAfter with a lease that is never replaced once acquired
LeaseAfter_KeepFirst(ph, out) == IF out.kind = "return" /\ ph = NoPhone THEN out.phone ELSE ph

\* LeaseAfter with the lease dropped when get_number fails
LeaseAfter_ClearOnFailure(ph, out) == IF out.kind = "return" THEN out.phone ELSE NoPhone

\* the lease SMSService keeps after the provider's get_number ended with out
LeaseAfter(ph, out) == IF out.kind = "return" THEN out.phone ELSE ph

\* SMSService.get_number: the getNumber request is sent
GetNumber(svc, c) ==
    /\ CanStart
    /\ family = "sms"
    /\ callNo' = callNo + 1
    /\ op' = "get_number"
    /\ sent' = <<Req(provider, "getNumber", CountryCode(provider, c), 0)>>
    /\ contacted' = contacted \cup {provider}
    /\ result' = Running
    /\ pc' = "buying"
    /\ UNCHANGED <<brokerVars, co2, smsVars, lastResp, timeout, elapsed, task_id>>

\* the answer to getNumber arrives; self._current_phone is assigned on success
GetNumberResponse(r) ==
    /\ pc = "buying"
    /\ lastResp' = r
    /\ LET out == NumberOutcome(provider, r, sent[1].id)
       IN /\ result' = out
          /\ current_phone' = LeaseAfter(current_phone, out)
          /\ leases' = IF out.kind = "return"
                       THEN Append(leases, out.phone.activation_id)
                       ELSE leases
    /\ pc' = "done"
    /\ UNCHANGED <<brokerVars, co2, callNo, op, timeout, elapsed, task_id, sent, contacted>>

\* the loop test of the client's wait_for_code and the request that follows
\* it: the next getStatus while elapsed < timeout, the cancel after the loop
NextCodeRequest(p, aid, el, to) ==
    IF LoopContinues(el, to) THEN Req(p, "getStatus", aid, el) ELSE Req(p, "cancel", aid, el)

\* WaitForCode whose loop polls once before it tests elapsed < timeout
WaitForCode_PollsBeforeTest(t) ==
    /\ CanStart
    /\ family = "sms"
    /\ callNo' = callNo + 1
    /\ op' = "wait_for_code"
    /\ IF NoLease(current_phone)
       THEN /\ result' = Raised("ValueError", "No phone number acquired", None)
            /\ sent' = <<>>
            /\ pc' = "done"
            /\ UNCHANGED <<timeout, elapsed, task_id, contacted>>
       ELSE /\ result' = Running
            /\ timeout' = t
            /\ elapsed' = 0
            /\ task_id' = current_phone.activation_id
            /\ sent' = <<Req(provider, "getStatus", current_phone.activation_id, 0)>>
            /\ contacted' = contacted \cup {provider}
            /\ pc' = "checking"
    /\ UNCHANGED <<brokerVars, co2, smsVars, lastResp>>

\* SMSService.wait_for_code(timeout)
WaitForCode(t) ==
    /\ CanStart
    /\ family = "sms"
    /\ callNo' = callNo + 1
    /\ op' = "wait_for_code"
    /\ IF NoLease(current_phone)
       THEN /\ result' = Raised("ValueError", "No phone number acquired", None)
            /\ sent' = <<>>
            /\ pc' = "done"
            /\ UNCHANGED <<timeout, elapsed, task_id, contacted>>
       ELSE /\ result' = Running
            /\ timeout' = t
            /\ elapsed' = 0
            /\ task_id' = current_phone.activation_id
            /\ sent' = <<NextCodeRequest(provider, current_phone.activation_id, 0, t)>>
            /\ contacted' = contacted \cup {provider}
            /\ pc' = IF sent'[1].kind = "getStatus" THEN "checking" ELSE "cancelling"
    /\ UNCHANGED <<brokerVars, co2, smsVars, lastResp>>

\* the answer to getStatus arrives: on a code the "done" notification is sent
CodeResponse(r) ==
    /\ pc = "checking"
    /\ lastResp' = r
    /\ LET out == CodeOutcome(provider, r) IN
       IF out.kind = "raise"
       THEN /\ result' = out
            /\ pc' = "done"
            /\ UNCHANGED <<sent, contacted>>
       ELSE IF Truthy(out.code)
       THEN /\ result' = [Running EXCEPT !.code = out.code]
            /\ sent' = Append(sent, Req(provider, "done", task_id, elapsed))
            /\ contacted' = contacted \cup {provider}
            /\ pc' = "finishing"
       ELSE /\ result' = Running
            /\ pc' = "waiting"
            /\ UNCHANGED <<sent, contacted>>
    /\ UNCHANGED <<brokerVars, co2, smsVars, callNo, op, timeout, elapsed, task_id>>

\* CodeSleepDone that reads the Broker's current lease for its next request
CodeSleepDone_RereadsLease ==
    /\ pc = "waiting"
    /\ elapsed' = elapsed + PollInterval(provider)
    /\ sent' = Append(sent, NextCodeRequest(provider, current_phone.activation_id, elapsed',
                                            timeout))
    /\ contacted' = contacted \cup {provider}
    /\ pc' = IF LoopContinues(elapsed', timeout) THEN "checking" ELSE "cancelling"
    /\ UNCHANGED <<brokerVars, co2, smsVars, callNo, op, timeout, task_id, lastResp, result>>

\* asyncio.sleep(poll_interval) returns; elapsed += poll_interval; loop test
CodeSleepDone ==
    /\ pc = "waiting"
    /\ elapsed' = elapsed + PollInterval(provider)
    /\ sent' = Append(sent, NextCodeRequest(provider, task_id, elapsed', timeout))
    /\ contacted' = contacted \cup {provider}
    /\ pc' = IF LoopContinues(elapsed', timeout) THEN "checking" ELSE "cancelling"
    /\ UNCHANGED <<brokerVars, co2, smsVars, callNo, op, timeout, task_id, lastResp, result>>

\* NotifyDone that gives up the lease once the vendor has been notified
NotifyDone_ReleasesLease ==
    /\ pc \in {"finishing", "cancelling"}
    /\ result' = IF pc = "finishing"
                 THEN Returned(NoSolution, NoPhone, result.code)
                 ELSE Raised("TimeoutError", "No code received within", None)
    /\ pc' = "done"
    /\ current_phone' = NoPhone
    /\ UNCHANGED <<brokerVars, co2, leases, callNo, op, timeout, elapsed, task_id, sent,
                   contacted, lastResp>>

\* set_status / finish / cancel returns: the code is returned, or TimeoutError raised
NotifyDone ==
    /\ pc \in {"finishing", "cancelling"}
    /\ result' = IF pc = "finishing"
                 THEN Returned(NoSolution, NoPhone, result.code)
                 ELSE Raised("TimeoutError", "No code received within", None)
    /\ pc' = "done"
    /\ UNCHANGED <<brokerVars, co2, smsVars, callNo, op, timeout, elapsed, task_id, sent,
                   contacted, lastResp>>

(***************************************************************************)
(* Transport failures.  No request of the clients is wrapped in try/except *)
(* and the Brokers catch ValueError at entry only, so an aiohttp error     *)
(* raised by an awaited request leaves the running operation as it is.     *)
(***************************************************************************)
\* what is recorded as the answer when the request failed at the transport level
TransportError == [rkind |-> "transport"]

\* positions at which the running coroutine awaits the answer to a request
AwaitingAnswer == {"creating", "polling", "buying", "checking", "finishing", "cancelling"}

\* TransportFailure with a failed poll swallowed: the loop goes on to its next round
TransportFailure_Swallowed ==
    /\ pc \in AwaitingAnswer
    /\ lastResp' = TransportError
    /\ result' = IF pc = "polling"
                 THEN LoopCheck(Running, elapsed, timeout, "CAPTCHA not solved within")
                 ELSE Raised("ClientError", "transport failure", None)
    /\ pc' = IF result'.kind = "running" THEN "sleeping" ELSE "done"
    /\ UNCHANGED <<brokerVars, co2, smsVars, callNo, op, timeout, elapsed, task_id, sent,
                   contacted>>

\* session.post / session.get raises aiohttp.ClientError
TransportFailure ==
    /\ pc \in AwaitingAnswer
    /\ lastResp' = TransportError
    /\ result' = Raised("ClientError", "transport failure", None)
    /\ pc' = "done"
    /\ UNCHANGED <<brokerVars, co2, smsVars, callNo, op, timeout, elapsed, task_id, sent,
                   contacted>>

(***************************************************************************)
(* A second call on the same Broker instance, started while the first one  *)
(* is suspended at an await.  It runs the same provider client code with   *)
(* its own local variables; nothing in the Broker or its clients keeps it  *)
(* from running.                                                           *)
(***************************************************************************)
mainVars ==
    <<brokerVars, smsVars, callNo, op, pc, timeout, elapsed, task_id, sent, contacted,
      lastResp, result>>

\* a second call can start: the instance is entered and the first call is suspended
CanStart2 ==
    /\ phase = "entered"
    /\ pc \notin {"idle", "done"}
    /\ co2.pc = "idle"

\* _create_and_wait(task, timeout) called a second time: the create request is sent
CreateAndWait2(t) ==
    /\ CanStart2
    /\ family = "captcha"
    /\ co2' = [NoCall2 EXCEPT !.pc = "creating", !.timeout = t]
    /\ UNCHANGED mainVars

\* the create response of the second call arrives
CreateResponse2(r) ==
    /\ co2.pc = "creating"
    /\ LET out == LoopCheck(CreateOutcome(provider, r), 0, co2.timeout,
                            "CAPTCHA not solved within")
       IN co2' = [co2 EXCEPT !.pc = IF out.kind = "running" THEN "sleeping" ELSE "done",
                             !.kind = out.kind,
                             !.etype = out.etype,
                             !.task_id = IF CreateOutcome(provider, r).kind = "raise"
                                         THEN None
                                         ELSE CreatedTaskId(provider, r)]
    /\ UNCHANGED mainVars

\* the sleep of the second call ends; elapsed += poll_interval; its poll is sent
SleepDone2 ==
    /\ co2.pc = "sleeping"
    /\ co2' = [co2 EXCEPT !.elapsed = @ + PollInterval(provider),
                          !.polls = @ + 1,
                          !.pc = "polling"]
    /\ UNCHANGED mainVars

\* the poll response of the second call arrives
PollResponse2(r) ==
    /\ co2.pc = "polling"
    /\ LET out == LoopCheck(PollOutcome(provider, r, co2.task_id), co2.elapsed, co2.timeout,
                            "CAPTCHA not solved within")
       IN co2' = [co2 EXCEPT !.pc = IF out.kind = "running" THEN "sleeping" ELSE "done",
                             !.kind = out.kind,
                             !.etype = out.etype]
    /\ UNCHANGED mainVars

\* SMSService.wait_for_code(timeout) called a second time
WaitForCode2(t) ==
    /\ CanStart2
    /\ family = "sms"
    /\ co2' = IF NoLease(current_phone)
              THEN [NoCall2 EXCEPT !.pc = "done", !.kind = "raise", !.etype = "ValueError"]
              ELSE [NoCall2 EXCEPT !.timeout = t,
                                   !.task_id = current_phone.activation_id,
                                   !.polls = IF LoopContinues(0, t) THEN 1 ELSE 0,
                                   !.pc = IF LoopContinues(0, t) THEN "checking"
                                          ELSE "cancelling"]
    /\ UNCHANGED mainVars

\* the answer to the getStatus of the second call arrives
CodeResponse2(r) ==
    /\ co2.pc = "checking"
    /\ LET out == CodeOutcome(provider, r) IN
       co2' = IF out.kind = "raise"
              THEN [co2 EXCEPT !.pc = "done", !.kind = "raise", !.etype = out.etype]
              ELSE IF Truthy(out.code)
              THEN [co2 EXCEPT !.pc = "finishing"]
              ELSE [co2 EXCEPT !.pc = "waiting"]
    /\ UNCHANGED mainVars

\* the sleep of the second wait_for_code ends; elapsed += poll_interval; loop test
CodeSleepDone2 ==
    /\ co2.pc = "waiting"
    /\ LET el == co2.elapsed + PollInterval(provider) IN
       co2' = [co2 EXCEPT !.elapsed = el,
                          !.polls = IF LoopContinues(el, co2.timeout) THEN @ + 1 ELSE @,
                          !.pc = IF LoopContinues(el, co2.timeout) THEN "checking"
                                 ELSE "cancelling"]
    /\ UNCHANGED mainVars

\* the notification of the second wait_for_code returns
NotifyDone2 ==
    /\ co2.pc \in {"finishing", "cancelling"}
    /\ co2' = IF co2.pc = "finishing"
              THEN [co2 EXCEPT !.pc = "done", !.kind = "return"]
              ELSE [co2 EXCEPT !.pc = "done", !.kind = "raise", !.etype = "TimeoutError"]
    /\ UNCHANGED mainVars

\* SMSService.get_number() called a second time, with its default arguments
GetNumber2 ==
    /\ CanStart2
    /\ family = "sms"
    /\ co2' = [NoCall2 EXCEPT !.pc = "buying"]
    /\ UNCHANGED mainVars

\* the answer to the getNumber of the second call arrives;
\* self._current_phone is assigned on success
GetNumberResponse2(r) ==
    /\ co2.pc = "buying"
    /\ LET out == NumberOutcome(provider, r, CountryCode(provider, "russia"))
       IN /\ current_phone' = LeaseAfter(current_phone, out)
          /\ leases' = IF out.kind = "return"
                       THEN Append(leases, out.phone.activation_id)
                       ELSE leases
          /\ co2' = [co2 EXCEPT !.pc = "done", !.kind = out.kind, !.etype = out.etype]
    /\ UNCHANGED <<brokerVars, callNo, op, pc, timeout, elapsed, task_id, sent, contacted,
                   lastResp, result>>

\* a request of the second call raises aiohttp.ClientError
TransportFailure2 ==
    /\ co2.pc \in AwaitingAnswer
    /\ co2' = [co2 EXCEPT !.pc = "done", !.kind = "raise", !.etype = "ClientError"]
    /\ UNCHANGED mainVars

(***************************************************************************)
(* The specification.                                                      *)
(***************************************************************************)
Next ==
    \/ Enter /\ UNCHANGED appVars
    \/ Exit /\ UNCHANGED appVars
    \/ \E o \in CaptchaOps : Solve(o) /\ UNCHANGED appVars
    \/ SolveRecaptchaV2Enterprise /\ UNCHANGED appVars
    \/ \E t \in Timeouts : CreateAndWait(t) /\ UNCHANGED appVars
    \/ \E r \in CreateResponses(provider) : CreateResponse(r) /\ UNCHANGED appVars
    \/ SleepDone /\ UNCHANGED appVars
    \/ \E r \in PollResponses(provider) : PollResponse(r) /\ UNCHANGED appVars
    \/ \E svc \in Services, c \in Countries : GetNumber(svc, c) /\ UNCHANGED appVars
    \/ \E r \in NumberResponses(provider) : GetNumberResponse(r) /\ UNCHANGED appVars
    \/ \E t \in SmsTimeouts : WaitForCode(t) /\ UNCHANGED appVars
    \/ \E r \in CodeResponses(provider) : CodeResponse(r) /\ UNCHANGED appVars
    \/ CodeSleepDone /\ UNCHANGED appVars
    \/ NotifyDone /\ UNCHANGED appVars
    \/ TransportFailure /\ UNCHANGED appVars

Spec == Init /\ [][Next]_vars

\* Every awaited request is answered and every sleep ends: the event loop
\* resumes the one running coroutine.
Progress ==
    \/ \E r \in CreateResponses(provider) : CreateResponse(r) /\ UNCHANGED appVars
    \/ SleepDone /\ UNCHANGED appVars
    \/ \E r \in PollResponses(provider) : PollResponse(r) /\ UNCHANGED appVars
    \/ \E r \in NumberResponses(provider) : GetNumberResponse(r) /\ UNCHANGED appVars
    \/ \E r \in CodeResponses(provider) : CodeResponse(r) /\ UNCHANGED appVars
    \/ CodeSleepDone /\ UNCHANGED appVars
    \/ NotifyDone /\ UNCHANGED appVars

FairSpec == Spec /\ WF_vars(Progress)

\* timeouts passed to the calls of the concurrent scenario
ConcTimeouts == {0, MaxConcTimeout}

\* One caller starts up to MaxConcCalls operations one after another, and a
\* second call is started while one of them is suspended.
ConcNext ==
    \/ Enter /\ UNCHANGED appVars
    \/ \E t \in ConcTimeouts : callNo < MaxConcCalls /\ CreateAndWait(t) /\ UNCHANGED appVars
    \/ \E r \in CreateResponses(provider) : CreateResponse(r) /\ UNCHANGED appVars
    \/ SleepDone /\ UNCHANGED appVars
    \/ \E r \in PollResponses(provider) : PollResponse(r) /\ UNCHANGED appVars
    \/ \E svc \in Services, c \in Countries :
           callNo < MaxConcCalls /\ GetNumber(svc, c) /\ UNCHANGED appVars
    \/ \E r \in NumberResponses(provider) : GetNumberResponse(r) /\ UNCHANGED appVars
    \/ \E t \in ConcTimeouts : callNo < MaxConcCalls /\ WaitForCode(t) /\ UNCHANGED appVars
    \/ \E r \in CodeResponses(provider) : CodeResponse(r) /\ UNCHANGED appVars
    \/ CodeSleepDone /\ UNCHANGED appVars
    \/ NotifyDone /\ UNCHANGED appVars
    \/ \E t \in ConcTimeouts : CreateAndWait2(t) /\ UNCHANGED appVars
    \/ \E r \in CreateResponses(provider) : CreateResponse2(r) /\ UNCHANGED appVars
    \/ SleepDone2 /\ UNCHANGED appVars
    \/ \E r \in PollResponses(provider) : PollResponse2(r) /\ UNCHANGED appVars
    \/ \E t \in ConcTimeouts : WaitForCode2(t) /\ UNCHANGED appVars
    \/ \E r \in CodeResponses(provider) : CodeResponse2(r) /\ UNCHANGED appVars
    \/ CodeSleepDone2 /\ UNCHANGED appVars
    \/ NotifyDone2 /\ UNCHANGED appVars
    \/ GetNumber2 /\ UNCHANGED appVars
    \/ \E r \in NumberResponses(provider) : GetNumberResponse2(r) /\ UNCHANGED appVars
    \/ TransportFailure /\ UNCHANGED appVars
    \/ TransportFailure2 /\ UNCHANGED appVars

ConcSpec == Init /\ [][ConcNext]_vars

\* country arguments of get_number: the names of country_map, some of them
\* in other letter cases, and names that are not in it
CountryNames ==
    {"usa", "USA", "uk", "UK", "russia", "ukraine", "germany", "Germany", "mars", "Mars"}

\* A caller that buys numbers for the countries of CountryNames.
CountryNext ==
    \/ Enter /\ UNCHANGED appVars
    \/ \E svc \in Services, c \in CountryNames : GetNumber(svc, c) /\ UNCHANGED appVars
    \/ \E r \in NumberResponses(provider) : GetNumberResponse(r) /\ UNCHANGED appVars
    \/ TransportFailure /\ UNCHANGED appVars
    \/ Exit /\ UNCHANGED appVars

CountrySpec == Init /\ [][CountryNext]_vars

(***************************************************************************)
(* SignupBot of signup_bot_enhanced.py.  The bot owns one SMSService and   *)
(* one CaptchaSolver, which share no state; a behaviour follows the bot's  *)
(* dealings with the one of family.                                        *)
(***************************************************************************)
\* SignupBot.__init__: self.sms / self.captcha (broker) and self.phone are
\* None.  keyword, handled, invoked and reply record the messages handled so
\* far: the branch the last one took, their number, the Broker methods called
\* for them and the last reply.
BotNew(i) ==
    [state |-> "new", interactive |-> i, broker |-> FALSE, phone |-> NoPhone,
     handling |-> None, keyword |-> None, reply |-> None, invoked |-> <<>>, handled |-> 0]

BotInit ==
    /\ BrokerInit
    /\ bot \in {BotNew(i) : i \in BOOLEAN}
    /\ db = NewDb
    /\ mail = NewMail

\* what handle_agent_message looks for in a message: the keywords, and
\* SITE_KEY for a site key of 40 characters that the regular expression finds
Messages(f) ==
    IF f = "captcha"
    THEN SUBSET {"CAPTCHA_DETECTED", "HCAPTCHA", "RECAPTCHA", "V3", "SITE_KEY"}
    ELSE SUBSET {"PHONE_REQUIRED", "SMS_CODE_REQUIRED"}

\* the branch of handle_agent_message a message takes: the tests are made in
\* this order and every branch returns
Keyword(m) ==
    IF "CAPTCHA_DETECTED" \in m THEN "CAPTCHA_DETECTED"
    ELSE IF "PHONE_REQUIRED" \in m THEN "PHONE_REQUIRED"
    ELSE IF "SMS_CODE_REQUIRED" \in m THEN "SMS_CODE_REQUIRED"
    ELSE "OTHER"

\* captcha_type of handle_agent_message
CaptchaType(m) ==
    IF "HCAPTCHA" \in m THEN "hcaptcha"
    ELSE IF "RECAPTCHA" \in m /\ "V3" \in m THEN "recaptcha_v3"
    ELSE "recaptcha_v2"

\* the terminal prompt of an interactive bot, whose input is the reply
Prompt == "input()"

\* return input(...) when interactive, the fixed text otherwise
ManualReply(b, text) == IF b.interactive THEN Prompt ELSE text

\* the replies of the branches taken when self.captcha / self.sms (or, for a
\* code, self.phone) is None
NotConfiguredReply(b, k) ==
    IF k = "CAPTCHA_DETECTED" THEN ManualReply(b, "Please solve the CAPTCHA manually.")
    ELSE ManualReply(b, "SMS service not configured.")

\* SignupBot.__aenter__: the Broker is constructed and assigned to self.sms /
\* self.captcha, then entered; the ValueError of a failed entry is logged
BotEnter ==
    /\ bot.state = "new"
    /\ bot.handling = None
    /\ Enter
    /\ bot' = [bot EXCEPT !.state = "entered", !.broker = TRUE]
    /\ UNCHANGED <<db, mail>>

\* a method of a Broker whose entry failed is called: self._provider is None
CallUnentered(o) ==
    /\ phase = "failed"
    /\ pc \in {"idle", "done"}
    /\ callNo < MaxCalls
    /\ callNo' = callNo + 1
    /\ op' = o
    /\ sent' = <<>>
    /\ result' = Raised("AttributeError", "'NoneType' object has no attribute", None)
    /\ pc' = "done"
    /\ UNCHANGED <<brokerVars, co2, smsVars, lastResp, timeout, elapsed, task_id, contacted>>

\* handle_agent_message returns without calling the Broker
BotAnswers(m, text) ==
    /\ bot' = [bot EXCEPT !.keyword = Keyword(m), !.reply = text, !.handled = @ + 1]
    /\ UNCHANGED <<coreVars, db, mail>>

\* handle_agent_message awaits a method of the Broker
BotCalls(m, method) ==
    /\ bot' = [bot EXCEPT !.keyword = Keyword(m), !.handling = Keyword(m), !.reply = None,
                          !.handled = @ + 1, !.invoked = Append(@, method)]
    /\ UNCHANGED <<db, mail>>

\* AgentMessage that asks for a code whenever self.sms is set
AgentMessage_NoPhoneTest(m) ==
    /\ bot.state \in {"new", "entered"}
    /\ bot.handling = None
    /\ bot.handled < MaxMessages
    /\ pc \in {"idle", "done"}
    /\ CASE Keyword(m) = "CAPTCHA_DETECTED" ->
                IF ~bot.broker
                THEN BotAnswers(m, NotConfiguredReply(bot, "CAPTCHA_DETECTED"))
                ELSE IF "SITE_KEY" \notin m /\ ~bot.interactive
                THEN BotAnswers(m, "Could not determine CAPTCHA site key.")
                ELSE /\ BotCalls(m, CaptchaType(m))
                     /\ IF phase = "entered" THEN Solve(CaptchaType(m))
                        ELSE CallUnentered(CaptchaType(m))
         [] Keyword(m) = "PHONE_REQUIRED" ->
                IF ~bot.broker
                THEN BotAnswers(m, NotConfiguredReply(bot, "PHONE_REQUIRED"))
                ELSE /\ BotCalls(m, "get_number")
                     /\ IF phase = "entered" THEN GetNumber("google", "russia")
                        ELSE CallUnentered("get_number")
         [] Keyword(m) = "SMS_CODE_REQUIRED" ->
                IF ~bot.broker
                THEN BotAnswers(m, NotConfiguredReply(bot, "SMS_CODE_REQUIRED"))
                ELSE /\ BotCalls(m, "wait_for_code")
                     /\ phase = "entered"
                     /\ WaitForCode(DefaultTimeout)
         [] OTHER ->
                BotAnswers(m, ManualReply(bot, "Unable to process request automatically."))

\* SignupBot.handle_agent_message(message), up to its return or its first await
AgentMessage(m) ==
    /\ bot.state \in {"new", "entered"}
    /\ bot.handling = None
    /\ bot.handled < MaxMessages
    /\ pc \in {"idle", "done"}
    /\ CASE Keyword(m) = "CAPTCHA_DETECTED" ->
                IF ~bot.broker
                THEN BotAnswers(m, NotConfiguredReply(bot, "CAPTCHA_DETECTED"))
                ELSE IF "SITE_KEY" \notin m /\ ~bot.interactive
                THEN BotAnswers(m, "Could not determine CAPTCHA site key.")
                ELSE /\ BotCalls(m, CaptchaType(m))
                     /\ IF phase = "entered" THEN Solve(CaptchaType(m))
                        ELSE CallUnentered(CaptchaType(m))
         [] Keyword(m) = "PHONE_REQUIRED" ->
                IF ~bot.broker
                THEN BotAnswers(m, NotConfiguredReply(bot, "PHONE_REQUIRED"))
                ELSE /\ BotCalls(m, "get_number")
                     /\ IF phase = "entered" THEN GetNumber("google", "russia")
                        ELSE CallUnentered("get_number")
         [] Keyword(m) = "SMS_CODE_REQUIRED" ->
                IF ~bot.broker \/ bot.phone = NoPhone
                THEN BotAnswers(m, NotConfiguredReply(bot, "SMS_CODE_REQUIRED"))
                ELSE /\ BotCalls(m, "wait_for_code")
                     /\ phase = "entered"
                     /\ WaitForCode(DefaultTimeout)
         [] OTHER ->
                BotAnswers(m, ManualReply(bot, "Unable to process request automatically."))

\* the reply handle_agent_message makes of the outcome of the awaited call;
\* logging solution.token[:30] raises inside the try when the token is None
ReplyTo(b, out) ==
    CASE b.handling = "CAPTCHA_DETECTED" ->
             IF out.kind = "return" /\ out.solution.token # None
             THEN "CAPTCHA_TOKEN"
             ELSE "CAPTCHA solving failed. Please solve manually."
      [] b.handling = "PHONE_REQUIRED" ->
             IF out.kind = "return" THEN "PHONE_NUMBER"
             ELSE ManualReply(b, "Failed to get phone number")
      [] b.handling = "SMS_CODE_REQUIRED" ->
             IF out.kind = "return" THEN "SMS_CODE"
             ELSE IF out.etype = "TimeoutError"
             THEN ManualReply(b, "SMS code not received within timeout.")
             ELSE ManualReply(b, "Failed to get SMS code")

\* the awaited Broker call has returned or raised: self.phone is assigned the
\* number that get_number returned, and handle_agent_message returns
BotReply ==
    /\ bot.state \in {"new", "entered"}
    /\ bot.handling # None
    /\ pc = "done"
    /\ bot' = [bot EXCEPT !.handling = None,
                          !.reply = ReplyTo(bot, result),
                          !.phone = IF bot.handling = "PHONE_REQUIRED" /\ result.kind = "return"
                                    THEN result.phone ELSE @]
    /\ UNCHANGED <<coreVars, db, mail>>

\* SignupBot.__aexit__: the Broker's __aexit__, which closes the session of
\* the provider if there is one
BotExit ==
    /\ bot.state = "entered"
    /\ bot.handling = None
    /\ pc \in {"idle", "done"}
    /\ IF phase = "entered" THEN Exit ELSE UNCHANGED coreVars
    /\ bot' = [bot EXCEPT !.state = "exited"]
    /\ UNCHANGED <<db, mail>>

BotNext ==
    \/ BotEnter
    \/ \E m \in Messages(family) : AgentMessage(m)
    \/ BotReply
    \/ BotExit
    \/ \E r \in CreateResponses(provider) : CreateResponse(r) /\ UNCHANGED appVars
    \/ SleepDone /\ UNCHANGED appVars
    \/ \E r \in PollResponses(provider) : PollResponse(r) /\ UNCHANGED appVars
    \/ \E r \in NumberResponses(provider) : GetNumberResponse(r) /\ UNCHANGED appVars
    \/ \E r \in CodeResponses(provider) : CodeResponse(r) /\ UNCHANGED appVars
    \/ CodeSleepDone /\ UNCHANGED appVars
    \/ NotifyDone /\ UNCHANGED appVars
    \/ TransportFailure /\ UNCHANGED appVars

BotSpec == BotInit /\ [][BotNext]_vars

(***************************************************************************)
(* Database of database.py: the tables accounts and signup_logs.           *)
(***************************************************************************)
Emails == {"a@atomicmail.io", "b@atomicmail.io"}

Statuses == {"pending", "active", "failed"}

\* a row of accounts
Account(id, email, status) == [id |-> id, email |-> email, status |-> status]

\* a row of signup_logs
LogEvent(id, type) == [account_id |-> id, event_type |-> type]

\* the outcome of a call: the returned id, or the exception
DbReturned(o, email, id) == [op |-> o, email |-> email, kind |-> "return", etype |-> None, id |-> id]
DbRaised(o, email, t) == [op |-> o, email |-> email, kind |-> "raise", etype |-> t, id |-> 0]

\* the INSERT / UPDATE violates email TEXT UNIQUE NOT NULL
ViolatesEmail(d, email, id) ==
    \/ email = None
    \/ \E r \in d.accounts : r.email = email /\ r.id # id

\* SaveAccountOn that writes the "created" event whether or not the INSERT succeeded
SaveAccountOn_LogsAlways(d, email, status) ==
    IF ~d.initialized
    THEN [d EXCEPT !.ops = @ + 1, !.out = DbRaised("save_account", email, "OperationalError")]
    ELSE IF ViolatesEmail(d, email, 0)
    THEN [d EXCEPT !.ops = @ + 1, !.logs = Append(@, LogEvent(d.seq, "created")),
                   !.out = DbRaised("save_account", email, "ValueError")]
    ELSE LET id == d.seq + 1
         IN [d EXCEPT !.accounts = @ \cup {Account(id, email, status)},
                      !.seq = id,
                      !.logs = Append(@, LogEvent(id, "created")),
                      !.ops = @ + 1,
                      !.out = DbReturned("save_account", email, id)]

\* Database.save_account(email, ..., status) on the database d: the INSERT,
\* the commit, cursor.lastrowid and _log_event(account_id, "created", ...);
\* sqlite3.IntegrityError becomes ValueError, a missing table raises
\* sqlite3.OperationalError
SaveAccountOn(d, email, status) ==
    IF ~d.initialized
    THEN [d EXCEPT !.ops = @ + 1, !.out = DbRaised("save_account", email, "OperationalError")]
    ELSE IF ViolatesEmail(d, email, 0)
    THEN [d EXCEPT !.ops = @ + 1, !.out = DbRaised("save_account", email, "ValueError")]
    ELSE LET id == d.seq + 1
         IN [d EXCEPT !.accounts = @ \cup {Account(id, email, status)},
                      !.seq = id,
                      !.logs = Append(@, LogEvent(id, "created")),
                      !.ops = @ + 1,
                      !.out = DbReturned("save_account", email, id)]

\* Database.initialize(): CREATE TABLE IF NOT EXISTS
DbInitialize ==
    /\ db.ops < MaxDbOps
    /\ db' = [db EXCEPT !.initialized = TRUE, !.ops = @ + 1,
                        !.out = DbReturned("initialize", None, 0)]
    /\ UNCHANGED <<coreVars, bot, mail>>

\* Database.save_account
SaveAccount(email, status) ==
    /\ db.ops < MaxDbOps
    /\ db' = SaveAccountOn(db, email, status)
    /\ UNCHANGED <<coreVars, bot, mail>>

\* Database.update_account(account_id, status=...): the UPDATE of the rows
\* with that id, then _log_event(account_id, "updated", ...)
UpdateStatus(id, status) ==
    /\ db.ops < MaxDbOps
    /\ db' = IF ~db.initialized
             THEN [db EXCEPT !.ops = @ + 1,
                             !.out = DbRaised("update_account", None, "OperationalError")]
             ELSE [db EXCEPT !.accounts = {IF r.id = id THEN [r EXCEPT !.status = status] ELSE r :
                                               r \in @},
                             !.logs = Append(@, LogEvent(id, "updated")),
                             !.ops = @ + 1,
                             !.out = DbReturned("update_account", None, id)]
    /\ UNCHANGED <<coreVars, bot, mail>>

\* Database.update_account(account_id, email=...): sqlite3.IntegrityError is
\* not caught here
UpdateEmail(id, email) ==
    /\ db.ops < MaxDbOps
    /\ db' = IF ~db.initialized
             THEN [db EXCEPT !.ops = @ + 1,
                             !.out = DbRaised("update_account", email, "OperationalError")]
             ELSE IF (\E r \in db.accounts : r.id = id) /\ ViolatesEmail(db, email, id)
             THEN [db EXCEPT !.ops = @ + 1,
                             !.out = DbRaised("update_account", email, "IntegrityError")]
             ELSE [db EXCEPT !.accounts = {IF r.id = id THEN [r EXCEPT !.email = email] ELSE r :
                                               r \in @},
                             !.logs = Append(@, LogEvent(id, "updated")),
                             !.ops = @ + 1,
                             !.out = DbReturned("update_account", email, id)]
    /\ UNCHANGED <<coreVars, bot, mail>>

\* Database.delete_account(account_id): the rows of signup_logs stay
DeleteAccount(id) ==
    /\ db.ops < MaxDbOps
    /\ db' = IF ~db.initialized
             THEN [db EXCEPT !.ops = @ + 1,
                             !.out = DbRaised("delete_account", None, "OperationalError")]
             ELSE [db EXCEPT !.accounts = {r \in @ : r.id # id},
                             !.ops = @ + 1,
                             !.out = DbReturned("delete_account", None, id)]
    /\ UNCHANGED <<coreVars, bot, mail>>

\* the account ids a caller passes
AccountIds == 1 .. MaxDbOps

DbNext ==
    \/ DbInitialize
    \/ \E email \in Emails \cup {None}, status \in Statuses : SaveAccount(email, status)
    \/ \E id \in AccountIds, status \in Statuses : UpdateStatus(id, status)
    \/ \E id \in AccountIds, email \in Emails : UpdateEmail(id, email)
    \/ \E id \in AccountIds : DeleteAccount(id)

DbSpec == Init /\ [][DbNext]_vars

(***************************************************************************)
(* AtomicMailBot.run of atomicmail_bot.py.  A page operation either        *)
(* completes or raises; the terminal prompts return when the user answers. *)
(***************************************************************************)
\* AtomicMailBot.__init__ calls get_database(), which initializes the tables
MailInit ==
    /\ BrokerInit
    /\ bot = NoBot
    /\ db = [NewDb EXCEPT !.initialized = TRUE]
    /\ mail = NewMail

\* the steps of the signup form, in the order run() awaits them
AllSteps == <<1, 2, 3, 4, 5>>

\* the position after a statement of the try block: on to the next one, or
\* into the except clause when the statement raised
AfterStatement(ok, next) == IF ok THEN next ELSE "except"

\* run(persona): the persona is set, the try block is entered
MailRun(email) ==
    /\ mail.pc \in {"idle", "returned", "raised"}
    /\ mail.runs < MaxRuns
    /\ mail' = [mail EXCEPT !.pc = "start_browser", !.email = email, !.steps = <<>>,
                            !.success = FALSE, !.error = FALSE, !.account_id = 0,
                            !.raising = FALSE, !.runs = @ + 1]
    /\ UNCHANGED <<coreVars, bot, db>>

\* start_browser(): the launch assigns self.browser, new_page self.page;
\* either may raise
StartBrowser(o) ==
    /\ mail.pc = "start_browser"
    /\ mail' = CASE o = "started" ->
                        [mail EXCEPT !.browser = "open", !.page = TRUE, !.pc = "goto"]
                 [] o = "launch failed" ->
                        [mail EXCEPT !.pc = "except"]
                 [] o = "page failed" ->
                        [mail EXCEPT !.browser = "open", !.pc = "except"]
    /\ UNCHANGED <<coreVars, bot, db>>

\* page.goto(SIGNUP_URL) and the delay after it
MailGoto(ok) ==
    /\ mail.pc = "goto"
    /\ mail' = [mail EXCEPT !.pc = AfterStatement(ok, "step")]
    /\ UNCHANGED <<coreVars, bot, db>>

\* step_1_names() .. step_4_seed_phrase(), awaited one after the other
MailStep(ok) ==
    /\ mail.pc = "step"
    /\ Len(mail.steps) < 4
    /\ mail' = [mail EXCEPT !.steps = IF ok THEN Append(@, Len(@) + 1) ELSE @,
                            !.pc = AfterStatement(ok, "step")]
    /\ UNCHANGED <<coreVars, bot, db>>

\* success = await step_5_complete_signup(); result["success"] = success
MailStep5(ok, success) ==
    /\ mail.pc = "step"
    /\ Len(mail.steps) = 4
    /\ mail' = [mail EXCEPT !.steps = IF ok THEN Append(@, 5) ELSE @,
                            !.success = ok /\ success,
                            !.pc = AfterStatement(ok, "save")]
    /\ UNCHANGED <<coreVars, bot, db>>

\* save_to_database(success): status "active" if success else "failed"
MailSave ==
    /\ mail.pc = "save"
    /\ db' = SaveAccountOn(db, mail.email, IF mail.success THEN "active" ELSE "failed")
    /\ mail' = [mail EXCEPT !.account_id = db'.out.id,
                            !.pc = AfterStatement(db'.out.kind = "return", "finally")]
    /\ UNCHANGED <<coreVars, bot>>

\* MailExcept that leaves run() at once when the screenshot raises
MailExcept_NoFinally(ok) ==
    /\ mail.pc = "except"
    /\ mail' = [mail EXCEPT !.error = TRUE,
                            !.raising = ~(ok /\ mail.page),
                            !.pc = IF ok /\ mail.page THEN "finally" ELSE "raised"]
    /\ UNCHANGED <<coreVars, bot, db>>

\* except Exception: result["error"] is set and take_screenshot("error") is
\* awaited, which raises when there is no page or the page fails
MailExcept(ok) ==
    /\ mail.pc = "except"
    /\ mail' = [mail EXCEPT !.error = TRUE,
                            !.raising = ~(ok /\ mail.page),
                            !.pc = "finally"]
    /\ UNCHANGED <<coreVars, bot, db>>

\* finally: after an error without success the prompt "Press ENTER to close"
NeedsPrompt(m) == ~m.success /\ m.error

\* the user answers the prompt of the finally clause
MailPrompt ==
    /\ mail.pc = "finally"
    /\ NeedsPrompt(mail)
    /\ mail' = [mail EXCEPT !.pc = "closing"]
    /\ UNCHANGED <<coreVars, bot, db>>

\* close_browser() at the end of the finally clause, then run() returns the
\* result or the exception of the except clause goes on to the caller
MailClose ==
    /\ \/ mail.pc = "closing"
       \/ mail.pc = "finally" /\ ~NeedsPrompt(mail)
    /\ mail' = [mail EXCEPT !.browser = IF @ = "open" THEN "closed" ELSE @,
                            !.page = FALSE,
                            !.pc = IF mail.raising THEN "raised" ELSE "returned"]
    /\ UNCHANGED <<coreVars, bot, db>>

MailNext ==
    \/ \E email \in Emails : MailRun(email)
    \/ \E o \in {"started", "launch failed", "page failed"} : StartBrowser(o)
    \/ \E ok \in BOOLEAN : MailGoto(ok)
    \/ \E ok \in BOOLEAN : MailStep(ok)
    \/ \E ok \in BOOLEAN, success \in BOOLEAN : MailStep5(ok, success)
    \/ MailSave
    \/ \E ok \in BOOLEAN : MailExcept(ok)
    \/ MailPrompt
    \/ MailClose

MailSpec == MailInit /\ [][MailNext]_vars

(***************************************************************************)
(* Properties.                                                             *)
(***************************************************************************)
\* the other provider of the same family
OtherProvider(p) ==
    CASE p = "capsolver" -> "2captcha"
      [] p = "2captcha" -> "capsolver"
      [] p = "sms-activate" -> "5sim"
      [] p = "5sim" -> "sms-activate"

\* the requests of kind k among the requests of the current operation
SentOf(k) == {i \in DOMAIN sent : sent[i].kind = k}

\* C1: entry selects the preferred provider when its key is configured, the
\* alternate one when only that key is configured, and fails with the "no
\* provider configured" ValueError when neither is; a failed entry leaves no
\* provider, no started operation and no request sent, and nothing is sent
\* before entry.
C1_EntryFailsFast ==
    /\ phase = "new" => (provider = None /\ contacted = {} /\ callNo = 0)
    /\ phase # "new" =>
        /\ preferred \in keys => (phase # "failed" /\ provider = preferred)
        /\ (preferred \notin keys /\ OtherProvider(preferred) \in keys) =>
               (phase # "failed" /\ provider = OtherProvider(preferred))
        /\ (preferred \notin keys /\ OtherProvider(preferred) \notin keys) =>
               /\ phase = "failed"
               /\ provider = None
               /\ result = Raised("ValueError", NoProviderMsg(family), None)
               /\ contacted = {} /\ sent = <<>> /\ callNo = 0 /\ pc = "idle"

\* C1 witness: an entry that failed because no key is configured
C1_Witness == phase = "failed" /\ keys = {} /\ result.etype = "ValueError"

\* C2: with only the alternate provider's key configured entry succeeds with
\* the alternate provider, and every request of every later operation goes
\* to it.
C2_AlternateSelected ==
    (phase # "new" /\ keys = {OtherProvider(preferred)}) =>
        /\ phase \in {"entered", "exited"}
        /\ provider = OtherProvider(preferred)
        /\ session[provider] # "none"
        /\ contacted \subseteq {OtherProvider(preferred)}
        /\ \A i \in DOMAIN sent : sent[i].to = OtherProvider(preferred)

\* C2 witness: a second operation served by the alternate provider
C2_Witness ==
    /\ keys = {OtherProvider(preferred)}
    /\ callNo >= 2 /\ pc = "done" /\ Len(sent) >= 2
    /\ contacted = {OtherProvider(preferred)}

\* C3: once entered, the selected provider never changes, whatever the
\* operations end with, and no request ever goes to another provider.
C3_ProviderFixed ==
    /\ [][(phase \in {"entered", "exited"}) => (provider' = provider)]_vars
    /\ [](contacted \subseteq {provider})
    /\ [](\A i \in DOMAIN sent : sent[i].to = provider)

\* the last response handled is one the provider client raises on
LastRespIsVendorError ==
    \/ lastResp.rkind = "capsolver" /\ lastResp.errorId # 0
    \/ lastResp.rkind = "2captcha" /\ lastResp.status # 1
                                   /\ lastResp.request # "CAPCHA_NOT_READY"
    \/ lastResp.rkind = "sms-activate"
           /\ lastResp.parts[1] \in {"NO_NUMBERS", "NO_BALANCE", "BAD_KEY", "STATUS_CANCEL"}
    \/ lastResp.rkind = "5sim" /\ lastResp.httpStatus # 200

\* C3 witness: the request of a third operation, started after an operation
\* the vendor failed, goes to the provider selected at entry
C3_Witness ==
    /\ callNo = 3 /\ Len(sent) = 1 /\ contacted = {provider}
    /\ pc \in {"creating", "buying", "checking"}
    /\ LastRespIsVendorError

\* The lifecycle state of the task of the current operation, read off the
\* coroutine's position and outcome.  "None": no task (no operation yet, a
\* get_number, or an operation rejected before any request).  A task whose
\* loop has ended is TimedOut or Ready from the moment its cancel or done
\* notification is sent, whatever becomes of that notification.
TaskState ==
    IF op \notin CaptchaOps \cup {"create_and_wait", "wait_for_code"} \/ sent = <<>>
    THEN "None"
    ELSE IF SentOf("cancel") # {} THEN "TimedOut"
    ELSE IF SentOf("done") # {} THEN "Ready"
    ELSE IF result.kind = "return" THEN "Ready"
    ELSE IF result.kind = "raise"
    THEN IF result.etype = "TimeoutError" THEN "TimedOut" ELSE "Failed"
    ELSE CASE pc = "creating" -> "Created"
           [] pc \in {"sleeping", "polling", "checking", "waiting"} -> "Polling"
           [] pc = "finishing" -> "Ready"
           [] pc = "cancelling" -> "TimedOut"
           [] OTHER -> "None"

TerminalStates == {"Ready", "Failed", "TimedOut", "Cancelled"}

Rank(st) ==
    CASE st = "None" -> 0
      [] st = "Created" -> 1
      [] st = "Polling" -> 2
      [] OTHER -> 3

\* the status checks (poll / getStatus requests) of the current operation
Polls == SentOf("poll") \cup SentOf("getStatus")

\* one step of the lifecycle of one task
LifecycleStep ==
    callNo' = callNo =>
        /\ Rank(TaskState') >= Rank(TaskState)
        /\ TaskState \in TerminalStates =>
               (TaskState' = TaskState /\ Polls' = Polls)
        /\ Polls' # Polls =>
               (TaskState \in {"None", "Polling"} /\ TaskState' = "Polling")

\* C4: a task only moves forward through Created, Polling and one terminal
\* state; a status check is issued and answered only in Polling; nothing is
\* polled and nothing changes after a terminal state; every task reaches a
\* terminal state.
C4_Lifecycle ==
    /\ [][LifecycleStep]_vars
    /\ [](pc \in {"polling", "checking"} => TaskState = "Polling")
    /\ [](TaskState \in {"Created", "Polling"} => <>(TaskState \in TerminalStates))

\* C4 witness: a task that timed out after at least two status checks
C4_Witness == TaskState = "TimedOut" /\ pc = "done" /\ Cardinality(Polls) >= 2

\* the current operation is a CAPTCHA solve that sent its create request
CaptchaTask == op \in CaptchaOps \cup {"create_and_wait"} /\ sent # <<>>

\* the vendor's answer r to a poll says the task is solved
IsReady(r) ==
    \/ r.rkind = "capsolver" /\ r.errorId = 0 /\ r.status = "ready"
    \/ r.rkind = "2captcha" /\ r.status = 1

\* the vendor's answer r says the task is accepted or still being worked on
IsNotReady(r) ==
    \/ r.rkind = "capsolver" /\ r.errorId = 0 /\ r.status # "ready"
                             /\ r.solution.value = None
    \/ r.rkind = "2captcha" /\ r.status # 1 /\ r.request = "CAPCHA_NOT_READY"
    \/ r.rkind = "2captcha" /\ r.status = 1 /\ r.request \in TaskIds

\* the token and the cost the vendor's ready answer r carries
ReportedToken(r) == IF r.rkind = "capsolver" THEN r.solution.value ELSE r.request

ReportedCost(r) == IF r.hasCost THEN r.cost ELSE 0

\* the first poll of the current solve has been answered "ready"
FirstPollReady ==
    /\ CaptchaTask
    /\ pc \notin {"creating", "polling"}
    /\ Cardinality(SentOf("poll")) = 1
    /\ IsReady(lastResp)

CeilDiv(a, b) == IF a <= 0 THEN 0 ELSE (a + b - 1) \div b

\* C6: a solve that is never answered "ready" ends with TimeoutError after
\* exactly ceil(timeout / poll_interval) polls: 4 polls for timeout 10 and
\* interval 3.
C6_NeverReadyPolls ==
    CaptchaTask =>
        /\ Cardinality(SentOf("poll")) <= CeilDiv(timeout, PollInterval(provider))
        /\ (pc = "done" /\ IsNotReady(lastResp)) =>
               /\ result.kind = "raise"
               /\ result.etype = "TimeoutError"
        /\ (pc = "done" /\ result.etype = "TimeoutError") =>
               /\ Cardinality(SentOf("poll")) = CeilDiv(timeout, PollInterval(provider))
               /\ (timeout = 10 /\ PollInterval(provider) = 3) =>
                      Cardinality(SentOf("poll")) = 4

\* C6 witness: timeout 10, interval 3, four polls, TimeoutError
C6_Witness ==
    /\ CaptchaTask /\ pc = "done" /\ result.etype = "TimeoutError"
    /\ timeout = 10 /\ provider = "capsolver" /\ Cardinality(SentOf("poll")) = 4

\* C7 as claimed: no poll of a CAPTCHA task is issued at an elapsed value
\* greater than the timeout.
C7_NoPollPastTimeout ==
    CaptchaTask => \A i \in SentOf("poll") : sent[i].at <= timeout

\* C8 as claimed: a CAPTCHA solve that ended with TimeoutError has sent
\* exactly one cancel request for its task id.
C8_CancelOnTimeout ==
    (CaptchaTask /\ pc = "done" /\ result.etype = "TimeoutError") =>
        Cardinality({i \in SentOf("cancel") : sent[i].id = task_id}) = 1

\* the ValueError of SMSService.wait_for_code
NoActiveLease == Raised("ValueError", "No phone number acquired", None)

\* C9: wait_for_code on a Broker on which no get_number has succeeded ends
\* at once with the no-lease ValueError and sends no request.
C9_NoLeaseNoRequest ==
    (op = "wait_for_code" /\ leases = <<>>) =>
        /\ pc = "done"
        /\ result = NoActiveLease
        /\ sent = <<>>

\* C9 witness: wait_for_code as the first operation of an entered Broker
C9_Witness ==
    /\ family = "sms" /\ phase = "entered" /\ callNo = 1
    /\ op = "wait_for_code" /\ result = NoActiveLease

\* the last answer handled is SMS-Activate's NO_NUMBERS
LastRespNoNumbers == lastResp.rkind = "sms-activate" /\ lastResp.parts = <<"NO_NUMBERS">>

\* C10: get_number answered NO_NUMBERS raises the "no numbers available"
\* exception and leaves the lease as it was; on a Broker without an earlier
\* lease the following wait_for_code fails with the no-lease ValueError and
\* sends nothing.
C10_NoNumbersNoLease ==
    /\ (op = "get_number" /\ pc = "done" /\ LastRespNoNumbers) =>
           /\ result = Raised("Exception", "No numbers available for this service/country",
                               None)
           /\ leases = <<>> => current_phone = NoPhone
    /\ (op = "wait_for_code" /\ LastRespNoNumbers /\ leases = <<>>) =>
           /\ pc = "done"
           /\ result = NoActiveLease
           /\ sent = <<>>

\* C10 witness: wait_for_code right after a get_number answered NO_NUMBERS
C10_Witness ==
    /\ callNo = 2 /\ op = "wait_for_code" /\ LastRespNoNumbers
    /\ leases = <<>> /\ result = NoActiveLease

\* the "done" / "cancel" notifications sent by the running wait_for_code for
\* the activation id of the lease
Notified(k) == {i \in SentOf(k) : sent[i].id = current_phone.activation_id}

\* the answer r tells that the vendor itself cancelled the activation
VendorCancelled(r) ==
    \/ r.rkind = "sms-activate" /\ r.parts = <<"STATUS_CANCEL">>
    \/ r.rkind = "5sim" /\ "status" \in DOMAIN r /\ r.status = "CANCELED"

\* wait_for_code sends one "done" when it returns a code, one "cancel" when
\* it times out, never both, and nothing when it raises on STATUS_CANCEL
NotifiedOnce ==
    (op = "wait_for_code" /\ sent # <<>>) =>
        /\ Cardinality(SentOf("done")) + Cardinality(SentOf("cancel")) <= 1
        /\ (pc = "done" /\ result.kind = "return") =>
               Cardinality(Notified("done")) = 1 /\ SentOf("cancel") = {}
        /\ (pc = "done" /\ result.etype = "TimeoutError") =>
               Cardinality(Notified("cancel")) = 1 /\ SentOf("done") = {}
        /\ (pc = "done" /\ result.msg = "Activation was cancelled") =>
               SentOf("done") = {} /\ SentOf("cancel") = {}

\* C11 as claimed: one "done" on a returned code, one "cancel" on a timeout,
\* never both; and once the vendor has reported the activation cancelled the
\* running wait_for_code sends neither notification, for both SMS clients.
C11_OneNotification ==
    /\ []NotifiedOnce
    /\ [][(op = "wait_for_code" /\ pc = "waiting" /\ VendorCancelled(lastResp)) =>
              (SentOf("done")' = SentOf("done") /\ SentOf("cancel")' = SentOf("cancel"))]_vars

\* a get_number has just returned a number: the Broker holds a lease that no
\* wait_for_code has finished or cancelled yet
LeaseJustAcquired == op = "get_number" /\ pc = "done" /\ result.kind = "return"

\* C12 as claimed: a get_number called while the lease acquired by the
\* previous get_number is still unreleased is rejected at once, and no
\* request for a second number is sent.
C12_SingleLease ==
    [][(LeaseJustAcquired /\ callNo' = callNo + 1 /\ op' = "get_number") =>
           (pc' = "done" /\ result'.kind = "raise" /\ sent' = <<>>)]_vars

\* C13: every request of a wait_for_code (status polls and the done / cancel
\* notification) carries the activation id returned by the most recent
\* successful get_number.
C13_PollsLatestLease ==
    (op = "wait_for_code" /\ sent # <<>>) =>
        /\ leases # <<>>
        /\ \A i \in DOMAIN sent :
               /\ sent[i].kind \in {"getStatus", "done", "cancel"}
               /\ sent[i].id = leases[Len(leases)]

\* C13 witness: two numbers with different activation ids were acquired, and
\* wait_for_code returned a code after notifying "done"
C13_Witness ==
    /\ Len(leases) = 2 /\ leases[1] # leases[2]
    /\ op = "wait_for_code" /\ pc = "done" /\ result.kind = "return"
    /\ SentOf("getStatus") # {} /\ SentOf("done") # {}

\* the vendor's "no numbers available" and "insufficient balance" answers
NoNumbersAnswer(p) ==
    IF p = "sms-activate" THEN SmsActivateResp(<<"NO_NUMBERS">>)
    ELSE FiveSimResp(400, FALSE, "no free phones", None, None, None, <<>>)

NoBalanceAnswer(p) ==
    IF p = "sms-activate" THEN SmsActivateResp(<<"NO_BALANCE">>)
    ELSE FiveSimResp(400, FALSE, "not enough user balance", None, None, None, <<>>)

\* C14 as claimed: a get_number answered "insufficient balance" ends after
\* its single request with an error whose kind (exception type) differs from
\* the kind raised for "no numbers available", with either SMS provider.
C14_DistinctErrorKinds ==
    (op = "get_number" /\ pc = "done" /\ lastResp = NoBalanceAnswer(provider)) =>
        /\ result.kind = "raise"
        /\ Cardinality(SentOf("getNumber")) = 1
        /\ result.etype # NumberOutcome(provider, NoNumbersAnswer(provider), sent[1].id).etype

\* the create answer r is a synchronous rejection by the vendor
CreateRejected(r) ==
    \/ r.rkind = "capsolver" /\ r.errorId # 0
    \/ r.rkind = "2captcha" /\ r.status # 1

\* the reason the vendor gives in an error answer
VendorReason(r) == IF r.rkind = "capsolver" THEN r.errorDescription ELSE r.request

\* C15: when the answer to the create request is a rejection, the solve ends
\* at that step with the "Failed to create task" exception carrying the
\* vendor's reason, and a solve that ended so has issued no poll.
C15_CreateRejected ==
    /\ [][(pc = "creating" /\ pc' # "creating" /\ CreateRejected(lastResp')) =>
              /\ pc' = "done"
              /\ result' = Raised("Exception", "Failed to create task", VendorReason(lastResp'))
              /\ sent' = sent]_vars
    /\ []((CaptchaTask /\ result.msg = "Failed to create task") =>
              (pc = "done" /\ SentOf("poll") = {} /\ Len(sent) = 1))

\* C15 witness: 2Captcha rejected the task for lack of balance
C15_Witness ==
    /\ CaptchaTask /\ pc = "done" /\ provider = "2captcha"
    /\ CreateRejected(lastResp) /\ Len(sent) = 1
    /\ result = Raised("Exception", "Failed to create task", "ERROR_ZERO_BALANCE")

\* the create answer r already contains a solution
InlineSolved(r) == r.rkind = "capsolver" /\ r.errorId = 0 /\ SolPresent(r.solution)

\* the step that handles a create answer carrying a solution
InlineStep == pc = "creating" /\ pc' # "creating" /\ InlineSolved(lastResp')

\* that step returns at once: no poll, no sleep
InlineReturnsAtOnce ==
    /\ pc' = "done"
    /\ result'.kind = "return"
    /\ sent' = sent
    /\ elapsed' = 0

PollFailed(r) ==
    \/ r.rkind = "capsolver" /\ r.errorId # 0
    \/ r.rkind = "2captcha" /\ r.status # 1 /\ r.request # "CAPCHA_NOT_READY"

\* C17: when a poll is answered by a vendor error, the solve ends at that
\* poll with the "Task failed" exception carrying the vendor's reason, and
\* sends nothing afterwards.
C17_PollError ==
    /\ [][(pc = "polling" /\ pc' # "polling" /\ PollFailed(lastResp')) =>
              /\ pc' = "done"
              /\ result' = Raised("Exception", "Task failed", VendorReason(lastResp'))
              /\ sent' = sent]_vars
    /\ [][(CaptchaTask /\ pc = "done" /\ callNo' = callNo) => (sent' = sent)]_vars

\* C17 witness: the second poll of a solve was answered by a vendor error
C17_Witness ==
    /\ CaptchaTask /\ pc = "done" /\ PollFailed(lastResp)
    /\ result.msg = "Task failed" /\ result.reason = VendorReason(lastResp)
    /\ Cardinality(SentOf("poll")) = 2

\* the answer r to a status poll is neither "code received" nor "still
\* waiting for the code"
CodeAnswerIsError(r) ==
    \/ r.rkind = "sms-activate" /\ r.parts[1] \notin {"STATUS_OK", "STATUS_WAIT_CODE"}
    \/ r.rkind = "5sim" /\ "status" \in DOMAIN r /\ r.status \notin {"PENDING", "RECEIVED"}

\* C18 as claimed: a status poll answered by anything other than "code
\* received" or "still waiting" ends wait_for_code with a failure at that
\* poll.
C18_CodePollError ==
    [][(pc = "checking" /\ pc' # "checking" /\ CodeAnswerIsError(lastResp')) =>
           (pc' = "done" /\ result'.kind = "raise" /\ sent' = sent)]_vars

\* the polls of the running operation that have been answered
AnsweredPolls == Cardinality(Polls) - (IF pc \in {"polling", "checking"} THEN 1 ELSE 0)

\* Time passed since the polling loop of the running operation was entered
\* (right after the task creation), when every poll round trip takes d: the
\* loop awaits each poll's answer and then sleeps one whole interval, and
\* elapsed adds up the sleeps.
WallClock(d) == elapsed + d * AnsweredPolls

\* a polling operation has ended with TimeoutError
TimedOut == pc = "done" /\ result.etype = "TimeoutError" /\ Polls # {}

\* C19 as claimed: whatever the round-trip duration d > 0 of the polls, the
\* time between task creation and the TimeoutError stays within the timeout
\* plus one polling interval.
C19_TimeoutIncludesRoundTrips ==
    TimedOut => \A d \in 1 .. MaxRoundTrip :
                    WallClock(d) <= timeout + PollInterval(provider)

\* with instantaneous polls the bound is met
TimeoutWithoutRoundTrips == TimedOut => WallClock(0) <= timeout + PollInterval(provider)

\* poll requests of this Broker instance awaiting their answer
PollsInFlight ==
    (IF pc \in {"polling", "checking"} THEN 1 ELSE 0)
    + (IF co2.pc \in {"polling", "checking"} THEN 1 ELSE 0)

\* the requests of the first caller's running operation are in program
\* order: the create request first, then poll n at the n-th interval
\* (a status poll of wait_for_code at interval n - 1)
PollsInOrder ==
    /\ pc = "creating" => Polls = {}
    /\ \A i \in SentOf("poll") :
           i >= 2 /\ sent[1].kind = "create" /\ sent[i].at = (i - 1) * PollInterval(provider)
    /\ \A i \in SentOf("getStatus") : sent[i].at = (i - 1) * PollInterval(provider)

\* the same for the second call, by its counters
PollsInOrder2 ==
    /\ co2.pc = "creating" => co2.polls = 0
    /\ (family = "captcha" /\ co2.pc # "idle") =>
           co2.polls * PollInterval(provider) = co2.elapsed
    /\ (family = "sms" /\ co2.pc \in {"checking", "waiting", "finishing"}) =>
           (co2.polls - 1) * PollInterval(provider) = co2.elapsed

\* C20 as claimed: in every interleaving of the calls started on one Broker
\* instance, two concurrent calls included, at most one poll request is in
\* flight, creation precedes the first poll and the polls are in order.
C20_OnePollInFlight_Original ==
    PollsInFlight <= 1 /\ PollsInOrder /\ PollsInOrder2

\* C20, amended: each call sends its create request first and its polls one
\* at a time, a poll only after the previous answer was handled and a sleep
\* has ended; as long as no second call runs on the instance at most one
\* poll is in flight.
C20_OnePollPerCall ==
    /\ [](PollsInOrder /\ PollsInOrder2)
    /\ [][(Polls' # Polls /\ callNo' = callNo) =>
              /\ pc \in {"sleeping", "waiting"}
              /\ pc' \in {"polling", "checking"}
              /\ Cardinality(Polls') = Cardinality(Polls) + 1]_vars
    /\ [][(co2.polls' # co2.polls /\ co2.pc # "idle") =>
              /\ co2.pc \in {"sleeping", "waiting"}
              /\ co2.pc' \in {"polling", "checking"}
              /\ co2.polls' = co2.polls + 1]_vars
    /\ [](co2.pc \in {"idle", "done"} => PollsInFlight <= 1)

\* C20 witness: two concurrent solves, each with its second poll in flight
C20_Witness ==
    /\ family = "captcha" /\ pc = "polling" /\ co2.pc = "polling"
    /\ Cardinality(SentOf("poll")) = 2 /\ co2.polls = 2

\* the step in which the create, getNumber or poll request awaited by the
\* running operation fails at the transport level
RequestFails ==
    /\ pc \in {"creating", "polling", "buying", "checking"}
    /\ pc' # pc
    /\ lastResp' = TransportError

\* C21: a transport failure of a create or poll request ends the operation
\* in that step with the transport error; the request is not sent again, no
\* later poll follows, and the provider selected at entry stays the only
\* one contacted.
C21_TransportFailureEnds ==
    /\ [][RequestFails =>
              /\ pc' = "done"
              /\ result' = Raised("ClientError", "transport failure", None)
              /\ sent' = sent
              /\ provider' = provider]_vars
    /\ [][(pc = "done" /\ result.etype = "ClientError" /\ callNo' = callNo) =>
              (sent' = sent /\ provider' = provider /\ contacted' = contacted)]_vars
    /\ [](result.etype = "ClientError" => (pc = "done" /\ contacted = {provider}))

\* C21 witness: the second poll of a solve failed at the transport level
C21_Witness ==
    /\ CaptchaTask /\ pc = "done" /\ lastResp = TransportError
    /\ result.etype = "ClientError"
    /\ Cardinality(SentOf("poll")) = 2 /\ sent[Len(sent)].kind = "poll"

\* C22 as claimed: whatever becomes of the cancel request sent on timeout,
\* its failure included, wait_for_code ends with the timed-out error.
C22_CancelBestEffort ==
    [][(op = "wait_for_code" /\ pc = "cancelling" /\ pc' # pc) =>
           (pc' = "done" /\ result'.etype = "TimeoutError")]_vars

\* no provider client other than p has a network session
OnlySessionOf(p) == \A q \in Providers \ {p} : session[q] = "none"

\* C23: an entered Broker has exactly one session, open, on its selected
\* provider; after exit that session is closed; a provider whose API key is
\* missing never has a session; before entry and after a failed entry there
\* is no session at all.
C23_OneSession ==
    /\ phase \in {"new", "failed"} => \A q \in Providers : session[q] = "none"
    /\ phase = "entered" => (session[provider] = "open" /\ OnlySessionOf(provider))
    /\ phase = "exited" => (session[provider] = "closed" /\ OnlySessionOf(provider))
    /\ \A q \in ProvidersOf(family) \ keys : session[q] = "none"

\* C23 witness: a Broker that failed over to the alternate provider, ran an
\* operation and exited
C23_Witness ==
    /\ phase = "exited" /\ callNo >= 1
    /\ provider # PreferredClient(family, preferred)
    /\ session[provider] = "closed"
    /\ session[PreferredClient(family, preferred)] = "none"

\* the answer that ended the running solve reported a solution: inline in
\* the create answer, or as a ready poll
ReportedSolved ==
    \/ Polls = {} /\ InlineSolved(lastResp)
    \/ Polls # {} /\ IsReady(lastResp)

\* C24: a solve returns a solution only when the create answer or a poll
\* answer reported one; an operation that raised (timeout, vendor error,
\* transport failure) carries no solution and never turns into a return;
\* a cost other than 0 comes only from a ready poll that reported it.
C24_ResultOnlyWhenReady ==
    /\ []((CaptchaTask /\ result.kind = "return") => (pc = "done" /\ ReportedSolved))
    /\ [](result.solution # NoSolution => (CaptchaTask /\ result.kind = "return"))
    /\ [](result.solution.cost # 0 =>
              /\ Polls # {} /\ IsReady(lastResp)
              /\ lastResp.hasCost /\ result.solution.cost = lastResp.cost)
    /\ [][(CaptchaTask /\ result.kind = "raise" /\ callNo' = callNo) =>
              (result' = result)]_vars

\* C24 witness: a solve that returned a token with the cost of its ready poll
C24_Witness ==
    /\ CaptchaTask /\ pc = "done" /\ result.kind = "return"
    /\ Polls # {} /\ IsReady(lastResp)
    /\ result.solution.token = "tok-123" /\ result.solution.cost = 21

\* C25 as claimed: the create request of a reCAPTCHA v2 solve sent to
\* CapSolver carries the task type chosen by the enterprise flag, also when
\* the solve is asked of the Broker with the flag set.
C25_EnterpriseTaskType ==
    provider = "capsolver" =>
        /\ (op = "recaptcha_v2" /\ pc = "done") =>
               (sent # <<>> /\ sent[1].id = CapSolverV2TaskType(FALSE))
        /\ (op = "recaptcha_v2_enterprise" /\ pc = "done") =>
               (sent # <<>> /\ sent[1].id = CapSolverV2TaskType(TRUE))

\* the Broker holds the lease of its latest successful get_number
HoldsLatestLease == leases # <<>> /\ current_phone.activation_id = leases[Len(leases)]

\* C26: a get_number that fails on a Broker holding a lease leaves the lease
\* as it was, and a wait_for_code started right after it does not raise the
\* no-lease error but sends its first request for the earlier activation id.
C26_FailedGetNumberKeepsLease ==
    /\ [][(pc = "buying" /\ pc' = "done" /\ result'.kind = "raise") =>
              (current_phone' = current_phone /\ leases' = leases)]_vars
    /\ []((op = "get_number" /\ pc = "done" /\ result.kind = "raise" /\ leases # <<>>) =>
              HoldsLatestLease)
    /\ [][(op = "get_number" /\ pc = "done" /\ result.kind = "raise" /\ leases # <<>>
           /\ op' = "wait_for_code" /\ callNo' = callNo + 1) =>
              /\ result' = Running
              /\ Len(sent') = 1
              /\ sent'[1].kind \in {"getStatus", "cancel"}
              /\ sent'[1].id = leases[Len(leases)]]_vars

\* C26 witness: the first poll of a wait_for_code started after a get_number
\* answered NO_NUMBERS, on a Broker holding the lease of an earlier get_number
C26_Witness ==
    /\ callNo = 3 /\ op = "wait_for_code" /\ pc = "checking" /\ Len(sent) = 1
    /\ lastResp = NoNumbersAnswer(provider)
    /\ Len(leases) = 1 /\ sent[1].id = leases[1]

\* a wait_for_code has ended after notifying the vendor: it returned a code
\* (activation marked done) or timed out (activation cancelled)
WaitEnded ==
    /\ op = "wait_for_code" /\ pc = "done"
    /\ \/ result.kind = "return" /\ SentOf("done") # {}
       \/ result.etype = "TimeoutError" /\ SentOf("cancel") # {}

\* C27: the lease outlives its wait_for_code: after a wait_for_code that
\* returned a code or timed out the Broker still holds the same lease, and a
\* further wait_for_code does not raise the no-lease error but sends its
\* first request for the same, already finished activation id.
C27_LeaseOutlivesWait ==
    /\ [](WaitEnded => (current_phone # NoPhone /\ current_phone.activation_id = task_id))
    /\ [][(WaitEnded /\ op' = "wait_for_code" /\ callNo' = callNo + 1) =>
              /\ result' = Running
              /\ Len(sent') = 1
              /\ sent'[1].kind \in {"getStatus", "cancel"}
              /\ sent'[1].id = task_id]_vars

\* C27 witness: the first poll of a second wait_for_code, sent for the
\* activation a first wait_for_code has received the code of
C27_Witness ==
    /\ callNo = 3 /\ op = "wait_for_code" /\ pc = "checking" /\ Len(sent) = 1
    /\ lastResp = SmsActivateResp(<<"STATUS_OK", "1234">>)
    /\ Len(leases) = 1 /\ sent[1].id = leases[1]

\* the first caller's wait_for_code sends one more request
WaitSends == op = "wait_for_code" /\ callNo' = callNo /\ sent' # sent

\* C28: every request a wait_for_code sends after its first one, the final
\* done / cancel notification included, carries the activation id of its
\* first request, whatever a concurrent get_number does to the Broker's
\* lease meanwhile; the first request of a wait_for_code carries the id of
\* the lease that is current when the call starts.
C28_WaitKeepsItsLease ==
    /\ [][WaitSends =>
              /\ Len(sent') = Len(sent) + 1
              /\ sent'[Len(sent')].id = sent[1].id
              /\ task_id' = sent[1].id]_vars
    /\ [][(op' = "wait_for_code" /\ callNo' = callNo + 1 /\ sent' # <<>>) =>
              (sent'[1].id = current_phone.activation_id /\ current_phone' = current_phone)]_vars
    /\ [][(family = "sms" /\ co2.pc = "idle" /\ co2'.pc \in {"checking", "cancelling"}) =>
              (co2'.task_id = current_phone.activation_id)]_vars
    /\ [][(co2.pc \in {"checking", "waiting", "finishing", "cancelling"}) =>
              (co2'.task_id = co2.task_id)]_vars

\* C28 witness: a wait_for_code that polled and then notified the first
\* activation id although a concurrent get_number had meanwhile replaced
\* the lease by a second one
C28_Witness ==
    /\ op = "wait_for_code" /\ Len(sent) >= 3
    /\ SentOf("done") \cup SentOf("cancel") # {}
    /\ Len(leases) = 2 /\ leases[1] # leases[2]
    /\ \A i \in DOMAIN sent : sent[i].id = leases[1]
    /\ current_phone.activation_id = leases[2]
    /\ co2.pc = "done" /\ co2.kind = "return"


\* a wait_for_code of an SMS client that has sent at least one request
CodeWait == op = "wait_for_code" /\ sent # <<>>

BrokerSolve == op \in CaptchaOps /\ sent # <<>>

\* the number of polls of a Broker solve that is never answered "ready"
BrokerPolls(p) == IF p = "capsolver" THEN 40 ELSE 24

\* C30: a solve made through the CaptchaSolver Broker runs with timeout 120;
\* its k-th poll is issued at elapsed k * poll_interval, so after k sleeps;
\* it never issues more than 40 polls with CapSolver or 24 with 2Captcha,
\* and it ends with TimeoutError exactly when that many polls were all
\* answered "not ready".
C30_BrokerTimeout ==
    BrokerSolve =>
        /\ timeout = DefaultTimeout
        /\ \A i \in SentOf("poll") : i >= 2 /\ sent[i].at = (i - 1) * PollInterval(provider)
        /\ Cardinality(SentOf("poll")) <= BrokerPolls(provider)
        /\ (pc = "done" /\ result.etype = "TimeoutError") =>
               /\ Cardinality(SentOf("poll")) = BrokerPolls(provider)
               /\ elapsed = DefaultTimeout
               /\ IsNotReady(lastResp)
        /\ (pc = "done" /\ IsNotReady(lastResp)) =>
               /\ result.etype = "TimeoutError"
               /\ Cardinality(SentOf("poll")) = BrokerPolls(provider)

\* C30 witness: a Broker solve on 2Captcha that ended with TimeoutError after
\* 24 polls, the last at elapsed 120
C30_Witness ==
    /\ BrokerSolve /\ provider = "2captcha"
    /\ pc = "done" /\ result.etype = "TimeoutError"
    /\ Cardinality(SentOf("poll")) = 24 /\ sent[25].at = 120


\* the Broker's solve_turnstile is called in this step
TurnstileCalled == op' = "turnstile" /\ callNo' = callNo + 1

\* C31: solve_turnstile on a Broker whose provider is 2Captcha raises
\* NotImplementedError in the step of the call, with no request sent, no
\* provider contacted and the Broker's phase, provider and sessions as they
\* were; on a Broker whose provider is CapSolver the call sends the create
\* request of an AntiTurnstileTaskProxyLess task, every later request is a
\* poll, and a solution is returned only from an answer that reported one.
C31_TurnstileNeedsCapSolver ==
    /\ [][(TurnstileCalled /\ provider = "2captcha") =>
              /\ result' = Raised("NotImplementedError",
                                  "Turnstile solving requires CapSolver", None)
              /\ pc' = "done"
              /\ sent' = <<>>
              /\ contacted' = contacted
              /\ brokerVars' = brokerVars]_vars
    /\ [][(TurnstileCalled /\ provider = "capsolver") =>
              /\ sent' = <<Req("capsolver", "create", "AntiTurnstileTaskProxyLess", 0)>>
              /\ pc' = "creating"
              /\ result' = Running
              /\ brokerVars' = brokerVars]_vars
    /\ [](op = "turnstile" =>
              /\ provider = "2captcha" => (sent = <<>> /\ result.etype = "NotImplementedError")
              /\ provider = "capsolver" =>
                     /\ sent[1].kind = "create"
                     /\ \A i \in 2 .. Len(sent) : sent[i].kind = "poll"
                     /\ result.etype # "NotImplementedError"
                     /\ (pc = "done" /\ result.kind = "return") => ReportedSolved)

\* C31 witness: solve_turnstile refused on a 2Captcha Broker whose session
\* stays open, after an earlier solve of the same Broker used 2Captcha
C31_Witness ==
    /\ op = "turnstile" /\ provider = "2captcha" /\ pc = "done"
    /\ result.etype = "NotImplementedError"
    /\ sent = <<>> /\ session["2captcha"] = "open" /\ callNo >= 2


\* the bot's Broker was entered by the bot and found no provider configured
BotUnconfigured == bot.state \in {"entered", "exited"} /\ phase = "failed"

\* C32 as claimed: on a bot whose Broker found no provider configured, no
\* method of that Broker is ever invoked, and a PHONE_REQUIRED or
\* CAPTCHA_DETECTED message is answered by the manual fallback: the terminal
\* prompt when interactive, "SMS service not configured." / "Please solve
\* the CAPTCHA manually." otherwise.
C32_UnconfiguredFallsBack ==
    BotUnconfigured =>
        /\ bot.invoked = <<>>
        /\ bot.handling = None
        /\ (bot.handled > 0 /\ bot.keyword \in {"PHONE_REQUIRED", "CAPTCHA_DETECTED"}) =>
               bot.reply = NotConfiguredReply(bot, bot.keyword)


\* the bot calls wait_for_code on its SMS Broker in this step
BotAsksCode == bot.state # "none" /\ bot'.invoked = Append(bot.invoked, "wait_for_code")

\* the bot handles an SMS_CODE_REQUIRED message in this step
CodeMessage ==
    /\ bot.state # "none"
    /\ bot'.handled = bot.handled + 1
    /\ bot'.keyword = "SMS_CODE_REQUIRED"

\* C33: the bot calls wait_for_code only when self.phone is set, which it is
\* only after a get_number of the bot returned a number, and the Broker then
\* holds a lease: the call polls the current activation id and no
\* wait_for_code ends with the no-lease ValueError; an SMS_CODE_REQUIRED
\* message that arrives while self.phone is None gets the manual reply and
\* leaves the Broker untouched.
C33_CodeOnlyAfterNumber ==
    /\ [][BotAsksCode =>
              /\ bot.phone # NoPhone
              /\ "get_number" \in {bot.invoked[i] : i \in DOMAIN bot.invoked}
              /\ ~NoLease(current_phone)
              /\ sent' # <<>>
              /\ sent'[1].id = current_phone.activation_id]_vars
    /\ [][(CodeMessage /\ bot.phone = NoPhone) =>
              /\ bot'.reply = NotConfiguredReply(bot, "SMS_CODE_REQUIRED")
              /\ bot'.invoked = bot.invoked
              /\ coreVars' = coreVars]_vars
    /\ [](bot.state # "none" =>
              /\ bot.phone # NoPhone =>
                     /\ leases # <<>>
                     /\ bot.phone.activation_id \in {leases[i] : i \in DOMAIN leases}
                     /\ ~NoLease(current_phone)
              /\ op = "wait_for_code" => (sent # <<>> /\ result.etype # "ValueError"))

\* C33 witness: the bot got a number, then asked for the code of that lease
\* and replied with it
C33_Witness ==
    /\ bot.state = "entered"
    /\ bot.invoked = <<"get_number", "wait_for_code">>
    /\ bot.phone = current_phone /\ bot.phone # NoPhone
    /\ bot.handling = None /\ bot.reply = "SMS_CODE"
    /\ op = "wait_for_code" /\ sent[1].id = bot.phone.activation_id


\* the five known country names with what each provider is to receive
KnownCountries ==
    {<<"usa", "12", "usa">>, <<"uk", "16", "england">>, <<"russia", "0", "russia">>,
     <<"ukraine", "1", "ukraine">>, <<"germany", "43", "germany">>}

\* the spellings of CountryNames that differ only in letter case from name
SameName(c, name) ==
    \/ c = name
    \/ <<c, name>> \in {<<"USA", "usa">>, <<"UK", "uk">>, <<"Germany", "germany">>}

\* what the provider p is to receive for the country argument c
ExpectedCountry(p, c) ==
    IF \E k \in KnownCountries : SameName(c, k[1])
    THEN LET k == CHOOSE k \in KnownCountries : SameName(c, k[1])
         IN IF p = "sms-activate" THEN k[2] ELSE k[3]
    ELSE c

\* C34: whenever SMSService.get_number is called with a country of
\* CountryNames, the getNumber request carries the numeric code of the table
\* for SMS-Activate and the country name of the table for 5sim when the
\* country is one of the five known names in any letter case, and the
\* country string as it was given otherwise.
C34_CountryTranslated ==
    [][\A c \in CountryNames :
           GetNumber("google", c) =>
               /\ sent'[1].kind = "getNumber"
               /\ sent'[1].to = provider
               /\ sent'[1].id = ExpectedCountry(provider, c)]_vars

\* C34 witness: SMS-Activate was asked for country 16 and sold a number there
C34_Witness ==
    /\ op = "get_number" /\ provider = "sms-activate" /\ pc = "done"
    /\ sent[1].id = "16"
    /\ result.kind = "return" /\ current_phone.country = "16"


\* save_account is called in this step
SaveCalled == db'.ops = db.ops + 1 /\ db'.out.op = "save_account"

\* the "created" events written for the account id
CreatedEvents(d, id) == {i \in DOMAIN d.logs : d.logs[i] = LogEvent(id, "created")}

\* C35: a save_account whose email is already stored raises ValueError and
\* leaves both tables as they were; a save_account that raises changes
\* nothing; a save_account that returns an id has added exactly one row to
\* accounts, with that id and the given email, and has appended exactly one
\* "created" event for that id, for which there was none before.
C35_SaveAccountAtomic ==
    [][SaveCalled =>
          /\ (\E r \in db.accounts : r.email = db'.out.email) =>
                 /\ db'.out.kind = "raise" /\ db'.out.etype = "ValueError"
          /\ db'.out.kind = "raise" =>
                 /\ db'.accounts = db.accounts
                 /\ db'.logs = db.logs
          /\ db'.out.kind = "return" =>
                 /\ \A r \in db.accounts : r.id # db'.out.id
                 /\ \E st \in Statuses :
                        db'.accounts = db.accounts \cup {Account(db'.out.id, db'.out.email, st)}
                 /\ Cardinality(db'.accounts) = Cardinality(db.accounts) + 1
                 /\ db'.logs = Append(db.logs, LogEvent(db'.out.id, "created"))
                 /\ CreatedEvents(db, db'.out.id) = {}]_vars

\* C35 witness: a save_account refused for a stored email, with one row and
\* one "created" event of the earlier save
C35_Witness ==
    /\ db.out.op = "save_account" /\ db.out.etype = "ValueError"
    /\ db.out.email \in {r.email : r \in db.accounts}
    /\ Cardinality(db.accounts) = 1 /\ db.logs = <<LogEvent(1, "created")>>


\* run() has ended: it returned its result or let an exception through
RunEnded == mail.pc \in {"returned", "raised"}

\* the status save_to_database gives the record
SavedStatus(m) == IF m.success THEN "active" ELSE "failed"

=============================================================================
